---- MODULE Spec2Model ----
(***************************************************************************)
(* Query-answering pipeline of the Josys NLP interface                     *)
(* (src/nlp_openai_interface.py): the Flask endpoint /api/nlp-search,      *)
(* JosysOpenAINLP.combined_nlp_search, natural_language_to_sql with its    *)
(* query cache, the keyword fallback search and the insight synthesis.     *)
(*                                                                         *)
(* Text is modelled as a sequence of tokens (a word, or the blank " ").    *)
(* Python dicts are TLA+ records; "key in dict" is membership in DOMAIN.   *)
(* The sqlite store is a record of three tables (sequences of rows in      *)
(* rowid order) plus the set of schema objects that do not exist.          *)
(***************************************************************************)
EXTENDS Integers, Sequences, FiniteSets, TLC

VARIABLES store, query_cache, last, requests, handlers

vars == <<store, query_cache, last, requests, handlers>>

\* Number of requests a behaviour of the model serves.
MaxRequests == 2

(***************************************************************************)
(* Text: tokens, lower-casing, length, strip, substring tests              *)
(***************************************************************************)

\* str.lower() on one token.
LowerTok(t) ==
    CASE t = "LENOVO" -> "lenovo"
      [] t = "Lenovo" -> "lenovo"
      [] t = "AWS"    -> "aws"
      [] t = "Admin"  -> "admin"
      [] t = "APPLE"  -> "apple"
      [] t = "Apple"  -> "apple"
      [] t = "Tomoyo" -> "tomoyo"
      [] t = "Mari"   -> "mari"
      [] t = "Bob"    -> "bob"
      [] t = "Amy"    -> "amy"
      [] t = "Laptop" -> "laptop"
      [] t = "LAPTOP" -> "laptop"
      [] t = "Notion" -> "notion"
      [] t = "AdministratorAccess" -> "administratoraccess"
      [] t = "ReadOnly" -> "readonly"
      [] OTHER -> t

\* str.lower() on a text.
Lower(q) == [i \in 1..Len(q) |-> LowerTok(q[i])]

\* Number of characters of one token.
TokLen(t) ==
    CASE t = "" -> 0
      [] t = " " -> 1
      [] t = "ab" -> 2
      [] LowerTok(t) \in {"aws", "bob", "amy"} -> 3
      [] LowerTok(t) = "mari" -> 4
      [] OTHER -> 5

RECURSIVE TextLen(_)
\* len(text)
TextLen(q) == IF q = <<>> THEN 0 ELSE TokLen(Head(q)) + TextLen(Tail(q))

RECURSIVE LStrip(_)
LStrip(q) == IF q # <<>> /\ Head(q) = " " THEN LStrip(Tail(q)) ELSE q

RECURSIVE RStrip(_)
RStrip(q) ==
    IF q # <<>> /\ q[Len(q)] = " " THEN RStrip(SubSeq(q, 1, Len(q) - 1)) ELSE q

\* str.strip()
Strip(q) == RStrip(LStrip(q))

Range(f) == {f[i] : i \in DOMAIN f}

\* The mail addresses of a store with eleven people.
ManyEmails ==
    << "k01@corp.com", "k02@corp.com", "k03@corp.com", "k04@corp.com",
       "k05@corp.com", "k06@corp.com", "k07@corp.com", "k08@corp.com",
       "k09@corp.com", "k10@corp.com", "k11@corp.com" >>

\* The lower-case words that occur as substrings of one lower-case token.
SubWords(t) ==
    CASE t = "administrator"       -> {"administrator", "admin"}
      [] t = "administratoraccess" -> {"administratoraccess", "administrator", "admin", "access"}
      [] t = "apple"               -> {"apple", "app"}
      [] t = "macbook"             -> {"macbook"}
      [] t = "devices"             -> {"devices", "device"}
      [] t = "users"               -> {"users", "user"}
      [] t = "tomoyo@corp.jp"      -> {"tomoyo@corp.jp", "tomoyo", "corp", ".jp"}
      [] t = "mari@corp.com"       -> {"mari@corp.com", "mari", "corp"}
      [] t = "bob@corp.com"        -> {"bob@corp.com", "bob", "corp"}
      [] t = "amy@corp.com"        -> {"amy@corp.com", "amy", "corp"}
      [] t \in Range(ManyEmails)   -> {t, "corp"}
      [] t = "aws-prod"            -> {"aws-prod", "aws"}
      [] t = "aws-dev"             -> {"aws-dev", "aws"}
      [] OTHER -> {t}

\* Python: kw in text (kw a lower-case keyword, text already lower-cased).
Has(text, kw) == \E i \in 1..Len(text) : kw \in SubWords(text[i])

\* SQL: UPPER(value) LIKE UPPER('%' || pattern || '%') for a whole text as
\* pattern; a stored value is one token, so only a one-token pattern can occur
\* inside it.
LikeText(value, pattern) ==
    /\ Len(pattern) = 1
    /\ LowerTok(pattern[1]) \in SubWords(LowerTok(value))

\* SQL: UPPER(value) LIKE '%KW%' for a fixed keyword.
LikeKw(value, kw) == kw \in SubWords(LowerTok(value))

\* SQL: UPPER(value) = 'KW'.
EqCI(value, kw) == LowerTok(value) = kw

\* Evaluates v once and applies F to the value (a let-binding by value).
Bind(v, F(_)) == CHOOSE out \in {F(x) : x \in {v}} : TRUE

\* dict.get(key, default)
Get(d, k, default) == IF k \in DOMAIN d THEN d[k] ELSE default

(***************************************************************************)
(* The relational store                                                    *)
(***************************************************************************)

Dev(asset, mfr, model, status, email) ==
    [Asset_Number |-> asset, Device_Type |-> "LAPTOP", Manufacturer |-> mfr,
     Model_Name |-> model, Device_Status |-> status,
     Assigned_User_s_Email |-> email, City |-> "bangalore", Region |-> "india"]

Prov(uid, first, surname, email, inc, pub) ==
    [User_ID |-> uid, First_Name |-> first, Last_Name |-> surname, Email |-> email,
     Role |-> "engineer", Status |-> "Active", Work_Location_Code |-> "blr",
     Notion_Josys_inc |-> inc, Notion_Josys_public |-> pub]

Port(email, app, ident, role, status) ==
    [Email |-> email, App |-> app, Identifier |-> ident, Role_s |-> role,
     Account_Status |-> status, Department_s |-> "eng"]

BaseProvisions ==
    << Prov("u1", "Bob", "b", "bob@corp.com", "Activated", ""),
       Prov("u2", "Amy", "a", "amy@corp.com", "", ""),
       Prov("u3", "Tomoyo", "t", "tomoyo@corp.jp", "", "Activated"),
       Prov("u4", "Mari", "m", "mari@corp.com", "", "") >>

\* Six Lenovo laptops of one user, one Apple laptop of another.
BaseDevices ==
    << Dev("a1", "LENOVO", "t14", "In-use", "bob@corp.com"),
       Dev("a2", "Lenovo", "t14", "In-use", "bob@corp.com"),
       Dev("a3", "LENOVO", "x1", "In-use", "bob@corp.com"),
       Dev("a4", "LENOVO", "x1", "Available", ""),
       Dev("a5", "LENOVO", "t14", "Available", ""),
       Dev("a6", "LENOVO", "t14", "Available", ""),
       Dev("a7", "APPLE", "macbook", "In-use", "amy@corp.com") >>

\* The store after csv_to_sqlite: no app_portfolio table at all.
StoreIngested ==
    [devices |-> BaseDevices, provisions |-> BaseProvisions,
     app_portfolio |-> <<>>, missing |-> {"app_portfolio"}]

\* AWS administrators exist, none of them on Lenovo, with Notion or in Japan.
StoreDisjoint ==
    [devices |-> BaseDevices, provisions |-> BaseProvisions,
     app_portfolio |->
        << Port("mari@corp.com", "AWS", "aws-prod", "AdministratorAccess", "Activated"),
           Port("bob@corp.com", "AWS", "aws-dev", "ReadOnly", "Activated") >>,
     missing |-> {}]

\* Every intersection is inhabited; Apple laptop user has no AWS access.
StoreOverlap ==
    [devices |-> BaseDevices, provisions |-> BaseProvisions,
     app_portfolio |->
        << Port("bob@corp.com", "AWS", "aws-prod", "AdministratorAccess", "Activated"),
           Port("bob@corp.com", "AWS", "aws-dev", "AdministratorAccess", "Activated"),
           Port("tomoyo@corp.jp", "AWS", "aws-prod", "AdministratorAccess", "Activated") >>,
     missing |-> {}]

\* A devices file without a City header.
StoreNoCity == [StoreDisjoint EXCEPT !.missing = {"devices.City"}]

\* A provisions file without a Role header and without Notion columns.
StoreNoRole ==
    [StoreDisjoint EXCEPT !.missing = {"provisions.Role", "provisions.Notion"}]

\* Eleven people, each with a Lenovo laptop in use, an activated AWS
\* administrator account and an activated Notion licence.
StoreManyAdmins ==
    [devices |-> [i \in DOMAIN ManyEmails |->
                     Dev("lot", "LENOVO", "t14", "In-use", ManyEmails[i])],
     provisions |-> [i \in DOMAIN ManyEmails |->
                     Prov(ManyEmails[i], "Kim", "k", ManyEmails[i], "Activated", "")],
     app_portfolio |-> [i \in DOMAIN ManyEmails |->
                     Port(ManyEmails[i], "AWS", "aws-prod", "AdministratorAccess",
                          "Activated")],
     missing |-> {}]

Stores ==
    {StoreIngested, StoreDisjoint, StoreOverlap, StoreNoCity, StoreNoRole,
     StoreManyAdmins}

\* Outcome of conn.execute(...).fetchall(): rows, or an exception.
Rows(rs, st)      == [kind |-> "rows", rows |-> rs, store |-> st]
SqliteError(m)    == [kind |-> "sqlite3.Error", msg |-> m]
OtherException(m) == [kind |-> "Exception", msg |-> m]

Min(a, b) == IF a < b THEN a ELSE b

\* SQL: LIMIT n on an ordered row sequence.
Limit(rows, n) == SubSeq(rows, 1, Min(n, Len(rows)))

(***************************************************************************)
(* The SQL oracle (OpenAI chat completion) and the executor                *)
(***************************************************************************)

\* Raw completions of the oracle (<fence> is the code-fence marker, <nl> a
\* newline): a fenced query with rows, a query without rows behind a language
\* tag, a completion that is only a fence, a misspelt query, a DELETE, and a
\* query text sqlite3 refuses to encode (UnicodeEncodeError, no sqlite3.Error).
OracleContents ==
    {<<"<fence>sql", "<nl>", "SELECT * FROM devices", "<nl>", "<fence>">>,
     <<"sql", " ", "SELECT * FROM devices WHERE 0">>,
     <<"<fence>sql", "<fence>">>,
     <<"SELEC">>,
     <<"DELETE FROM devices">>,
     <<"SELECT <lone surrogate>">>}

\* message.content = None (a completion without text).
NoContent == <<"<None>">>

OracleReplies ==
    {[raises |-> TRUE, msg |-> "Connection error."],
     [raises |-> FALSE, content |-> NoContent]}
      \cup {[raises |-> FALSE, content |-> c] : c \in OracleContents}

IsBlank(t) == t \in {" ", "<nl>"}

RECURSIVE StripWs(_)
\* str.strip() on a completion: blanks and newlines at both ends.
StripWs(c) ==
    IF c = <<>> THEN c
    ELSE IF IsBlank(Head(c)) THEN StripWs(Tail(c))
    ELSE IF IsBlank(c[Len(c)]) THEN StripWs(SubSeq(c, 1, Len(c) - 1))
    ELSE c

\* The post-processing of the raw completion into the candidate SQL.
CleanSql(content) ==
    LET stripped == StripWs(content)
        unfenced == StripWs(SelectSeq(stripped,
                                      LAMBDA t : t \notin {"<fence>sql", "<fence>"}))
    IN  IF unfenced # <<>> /\ Head(unfenced) = "sql"
        THEN StripWs(Tail(unfenced))
        ELSE unfenced

\* self.conn.execute(sql_query) and fetchall() for an oracle SQL text.
\* A DELETE runs on the same read-write connection as everything else.
ExecuteOracleSql(sql, st) ==
    IF sql = <<>> THEN Rows(<<>>, st)
    ELSE IF Len(sql) > 1 THEN SqliteError("syntax error")
    ELSE CASE sql[1] = "SELECT * FROM devices" -> Rows(st.devices, st)
           [] sql[1] = "SELECT * FROM devices WHERE 0" -> Rows(<<>>, st)
           [] sql[1] = "SELECT * FROM app_portfolio" ->
                IF "app_portfolio" \in st.missing
                THEN SqliteError("no such table: app_portfolio")
                ELSE Rows(st.app_portfolio, st)
           [] sql[1] = "DELETE FROM devices" ->
                Rows(<<>>, [st EXCEPT !.devices = <<>>])
           [] sql[1] = "SELECT <lone surrogate>" ->
                OtherException("surrogates not allowed")
           [] OTHER -> SqliteError("syntax error")

(***************************************************************************)
(* Keyword fallback search                                                 *)
(***************************************************************************)

DefaultLimit == 10

DeviceMatches(row, query) ==
    \/ LikeText(row.Asset_Number, query)
    \/ LikeText(row.Device_Type, query)
    \/ LikeText(row.Manufacturer, query)
    \/ LikeText(row.Assigned_User_s_Email, query)
    \/ LikeText(row.City, query)

ProvisionMatches(row, query) ==
    \/ LikeText(row.User_ID, query)
    \/ LikeText(row.First_Name, query)
    \/ LikeText(row.Last_Name, query)
    \/ LikeText(row.Email, query)
    \/ LikeText(row.Role, query)

\* Variant of KeywordDeviceQuery that removes the rows it returns from devices.
KeywordDeviceQuery_Consuming(query, limit, st) ==
    IF "devices.City" \in st.missing
    THEN SqliteError("no such column: City")
    ELSE Rows(Limit(SelectSeq(st.devices, LAMBDA r : DeviceMatches(r, query)),
                    limit \div 2),
              [st EXCEPT !.devices =
                   SelectSeq(st.devices, LAMBDA r : ~DeviceMatches(r, query))])

\* The first SELECT of the fallback (devices).
KeywordDeviceQuery(query, limit, st) ==
    IF "devices.City" \in st.missing
    THEN SqliteError("no such column: City")
    ELSE Rows(Limit(SelectSeq(st.devices, LAMBDA r : DeviceMatches(r, query)),
                    limit \div 2), st)

\* Variant of KeywordProvisionQuery that takes up to limit rows.
KeywordProvisionQuery_WholeLimit(query, limit, st) ==
    IF "provisions.Role" \in st.missing
    THEN SqliteError("no such column: Role")
    ELSE LET hits == Limit(SelectSeq(st.provisions,
                                     LAMBDA r : ProvisionMatches(r, query)),
                           limit)
         IN  Rows([i \in 1..Len(hits) |->
                     [f \in {"User_ID", "First_Name", "Last_Name", "Email",
                             "Role", "Status", "Work_Location_Code"} |-> hits[i][f]]],
                  st)

\* The second SELECT of the fallback (provisions), without the Notion columns.
KeywordProvisionQuery(query, limit, st) ==
    IF "provisions.Role" \in st.missing
    THEN SqliteError("no such column: Role")
    ELSE LET hits == Limit(SelectSeq(st.provisions,
                                     LAMBDA r : ProvisionMatches(r, query)),
                           limit \div 2)
         IN  Rows([i \in 1..Len(hits) |->
                     [f \in {"User_ID", "First_Name", "Last_Name", "Email",
                             "Role", "Status", "Work_Location_Code"} |-> hits[i][f]]],
                  st)

Tag(rows, type) ==
    [i \in 1..Len(rows) |-> [type |-> type, similarity |-> "0.8", data |-> rows[i]]]

\* Variant of CollectedResults that puts the user records first.
CollectedResults_UsersFirst(d, p) ==
    IF d.kind # "rows" THEN <<>>
    ELSE IF p.kind # "rows" THEN Tag(d.rows, "device")
    ELSE Tag(p.rows, "user") \o Tag(d.rows, "device")

\* _keyword_fallback_search: result dict and the statements it ran.
\* The list built inside the try block: an exception of the first query leaves
\* it empty, one of the second query leaves the device records in it.
CollectedResults(d, p) ==
    IF d.kind # "rows" THEN <<>>
    ELSE IF p.kind # "rows" THEN Tag(d.rows, "device")
    ELSE Tag(d.rows, "device") \o Tag(p.rows, "user")

\* Variant of FallbackStatus that lets a failed query propagate.
FallbackStatus_Propagating(d, p) ==
    IF d.kind # "rows" \/ p.kind # "rows"
    THEN [raised |-> TRUE, status |-> "error"]
    ELSE [raised |-> FALSE, status |-> "success"]

\* What the except clause of the fallback does with a failed query: it prints
\* the exception and goes on to the return statement.
FallbackStatus(d, p) == [raised |-> FALSE, status |-> "success"]

KeywordFallbackSearch(query, limit, elapsed, st) ==
    LET d == KeywordDeviceQuery(query, limit, st)
        st1 == IF d.kind = "rows" THEN d.store ELSE st
        p == KeywordProvisionQuery(query, limit, st1)
        cut == Limit(CollectedResults(d, p), limit)
    IN  [store |-> IF d.kind = "rows" /\ p.kind = "rows" THEN p.store ELSE st1,
         result |-> [query |-> query, method |-> "keyword_fallback",
                     results |-> cut, count |-> Len(cut),
                     execution_time |-> elapsed,
                     status |-> FallbackStatus(d, p).status],
         raised |-> FallbackStatus(d, p).raised,
         trace |-> IF d.kind # "rows" THEN <<"kw_devices">>
                   ELSE <<"kw_devices", "kw_provisions">>]

(***************************************************************************)
(* Insight synthesis: the sub-queries                                      *)
(***************************************************************************)

\* Outcome of a scalar or list sub-query: a value, or the exception text.
Ok(v)     == [ok |-> TRUE, val |-> v]
Raise(m)  == [ok |-> FALSE, msg |-> m]

NoPortfolio(st) == "app_portfolio" \in st.missing
NoNotion(st)    == "provisions.Notion" \in st.missing

InUse(d)    == d.Device_Status = "In-use"
Assigned(d) == d.Assigned_User_s_Email # ""

\* WHERE UPPER(App) LIKE '%AWS%' AND UPPER(Role_s) LIKE '%ADMINISTRATOR%'
\*   AND Account_Status = 'Activated'
IsAwsAdmin(ap) ==
    /\ LikeKw(ap.App, "aws")
    /\ LikeKw(ap.Role_s, "administrator")
    /\ ap.Account_Status = "Activated"

HasNotion(p) ==
    p.Notion_Josys_inc = "Activated" \/ p.Notion_Josys_public = "Activated"

\* COUNT(DISTINCT Assigned_User_s_Email) of in-use, assigned devices of a maker.
MakerUserCount(st, maker) ==
    Ok(Cardinality({d.Assigned_User_s_Email : d \in
          {x \in Range(st.devices) :
              EqCI(x.Manufacturer, maker) /\ InUse(x) /\ Assigned(x)}}))

\* COUNT(DISTINCT Email) FROM app_portfolio WHERE <AWS administrator>
AwsAdminCount(st) ==
    IF NoPortfolio(st) THEN Raise("no such table: app_portfolio")
    ELSE Ok(Cardinality({ap.Email : ap \in
               {x \in Range(st.app_portfolio) : IsAwsAdmin(x)}}))

\* COUNT(DISTINCT Email) FROM provisions WHERE <Notion activated>
NotionUserCount(st) ==
    IF NoNotion(st) THEN Raise("no such column: Notion_-_Josys_inc")
    ELSE Ok(Cardinality({p.Email : p \in
               {x \in Range(st.provisions) : HasNotion(x)}}))

\* COUNT(DISTINCT d.Assigned_User_s_Email) FROM devices d JOIN app_portfolio ap
\* (no Device_Status condition in this one).
LenovoAwsCount(st) ==
    IF NoPortfolio(st) THEN Raise("no such table: app_portfolio")
    ELSE Ok(Cardinality({d.Assigned_User_s_Email : d \in
               {x \in Range(st.devices) :
                   /\ EqCI(x.Manufacturer, "lenovo")
                   /\ \E ap \in Range(st.app_portfolio) :
                         ap.Email = x.Assigned_User_s_Email /\ IsAwsAdmin(ap)}}))

\* Position of a first name in the ORDER BY p.First_Name.
NameRank(n) ==
    CASE n = "Amy" -> 1 [] n = "Bob" -> 2 [] n = "Mari" -> 3
      [] n = "Tomoyo" -> 4 [] OTHER -> 5

RECURSIVE OrderByName(_)
\* ORDER BY p.First_Name, p.Last_Name over a set of DISTINCT rows; rows of one
\* person come in an order SQL leaves open.
OrderByName(S) ==
    IF S = {} THEN <<>>
    ELSE LET m == CHOOSE x \in S :
                     \A y \in S : NameRank(x.First_Name) <= NameRank(y.First_Name)
         IN  <<m>> \o OrderByName(S \ {m})

\* SELECT DISTINCT p..., ap..., d.Model_Name FROM devices d JOIN provisions p
\* JOIN app_portfolio ap WHERE maker, in use, AWS administrator ORDER BY name.
MakerAwsRows(st, maker) ==
    IF NoPortfolio(st) THEN Raise("no such table: app_portfolio")
    ELSE Ok(OrderByName(
           {[First_Name |-> p.First_Name, Last_Name |-> p.Last_Name,
             Email |-> p.Email, Identifier |-> ap.Identifier,
             Role_s |-> ap.Role_s, Model_Name |-> d.Model_Name] :
               <<d, p, ap>> \in
                 {t \in Range(st.devices) \X Range(st.provisions)
                          \X Range(st.app_portfolio) :
                     /\ t[1].Assigned_User_s_Email = t[2].Email
                     /\ t[2].Email = t[3].Email
                     /\ EqCI(t[1].Manufacturer, maker)
                     /\ InUse(t[1])
                     /\ IsAwsAdmin(t[3])}}))

\* SELECT DISTINCT p..., ap..., notion_type FROM app_portfolio ap JOIN provisions p
\* WHERE AWS administrator AND Notion activated ORDER BY name LIMIT 10.
CrossRefLimit == 10

AwsNotionRows(st) ==
    IF NoPortfolio(st) THEN Raise("no such table: app_portfolio")
    ELSE IF NoNotion(st) THEN Raise("no such column: p.Notion_-_Josys_inc")
    ELSE Ok(Limit(OrderByName(
           {[First_Name |-> p.First_Name, Last_Name |-> p.Last_Name,
             Email |-> p.Email, Identifier |-> ap.Identifier,
             Role_s |-> ap.Role_s,
             notion_type |-> IF p.Notion_Josys_inc = "Activated"
                             THEN "Josys Inc" ELSE "Josys Public"] :
               <<ap, p>> \in
                 {t \in Range(st.app_portfolio) \X Range(st.provisions) :
                     /\ t[1].Email = t[2].Email
                     /\ IsAwsAdmin(t[1])
                     /\ HasNotion(t[2])}}), CrossRefLimit))

\* LOWER(p.First_Name) IN ('tomoyo','mari','kohei','yuki','akira')
\*   OR p.Email LIKE '%.jp'
LooksJapanese(p) ==
    \/ LowerTok(p.First_Name) \in {"tomoyo", "mari", "kohei", "yuki", "akira"}
    \/ ".jp" \in SubWords(LowerTok(p.Email))

JapanAwsRows(st) ==
    IF NoPortfolio(st) THEN Raise("no such table: app_portfolio")
    ELSE Ok(Limit(OrderByName(
           {[First_Name |-> p.First_Name, Last_Name |-> p.Last_Name,
             Email |-> p.Email, Identifier |-> ap.Identifier,
             Role_s |-> ap.Role_s] :
               <<ap, p>> \in
                 {t \in Range(st.app_portfolio) \X Range(st.provisions) :
                     /\ t[1].Email = t[2].Email
                     /\ IsAwsAdmin(t[1])
                     /\ LooksJapanese(t[2])}}), CrossRefLimit))

\* COUNT(DISTINCT Assigned_User_s_Email) FROM devices WHERE Apple AND in use
\* (the empty address counts as one value here).
AppleBaseCount(st) ==
    Ok(Cardinality({d.Assigned_User_s_Email : d \in
          {x \in Range(st.devices) : EqCI(x.Manufacturer, "apple") /\ InUse(x)}}))

(***************************************************************************)
(* Insight synthesis: cross-references                                     *)
(***************************************************************************)

\* Python None.
None == [py_none |-> TRUE]

\* f"{user[0]} {user[1]}".strip()
FullName(r) == Strip(<<r.First_Name, " ", r.Last_Name>>)

\* Variant of DeviceUsers that lists nobody.
DeviceUsers_Unlisted(rows) == <<>>

\* users.append({...}) for each row of a device intersection.
DeviceUsers(rows) ==
    [i \in 1..Len(rows) |->
        [name |-> FullName(rows[i]), email |-> rows[i].Email,
         aws_identifier |-> rows[i].Identifier, aws_role |-> rows[i].Role_s,
         device_model |-> rows[i].Model_Name]]

NotionUsers(rows) ==
    [i \in 1..Len(rows) |->
        [name |-> FullName(rows[i]), email |-> rows[i].Email,
         aws_identifier |-> rows[i].Identifier, aws_role |-> rows[i].Role_s,
         notion_type |-> rows[i].notion_type]]

JapanUsers(rows) ==
    [i \in 1..Len(rows) |->
        [name |-> FullName(rows[i]), email |-> rows[i].Email,
         aws_identifier |-> rows[i].Identifier, aws_role |-> rows[i].Role_s]]

ErrorEntry(title, m) ==
    [type |-> "error", title |-> title, status |-> "error", message |-> m,
     users |-> <<>>]

\* _analyze_lenovo_aws_crossref
AnalyzeLenovoAwsCrossref(st) ==
    LET lenovo_count == MakerUserCount(st, "lenovo")
        rows == MakerAwsRows(st, "lenovo")
    IN  IF ~rows.ok
        THEN ErrorEntry("Lenovo + AWS Admin Analysis Error", rows.msg)
        ELSE IF Len(rows.val) = 0
        THEN [type |-> "intersection", title |-> "Lenovo + AWS Admin",
              status |-> "none", count |-> 0, total_base |-> lenovo_count.val,
              message |-> "None of the Lenovo laptop users have AWS Administrator access",
              blocker |-> "This is the primary blocker for the query",
              users |-> <<>>]
        ELSE [type |-> "intersection", title |-> "Lenovo + AWS Admin",
              status |-> "found", count |-> Len(rows.val),
              total_base |-> lenovo_count.val, message |-> "users found",
              users |-> DeviceUsers(rows.val)]

\* _analyze_aws_notion_crossref
AnalyzeAwsNotionCrossref(st) ==
    LET rows == AwsNotionRows(st)
    IN  IF ~rows.ok
        THEN ErrorEntry("AWS Admin + Notion Analysis Error", rows.msg)
        ELSE IF Len(rows.val) = 0
        THEN [type |-> "intersection", title |-> "AWS Admin + Notion",
              status |-> "none", count |-> 0,
              message |-> "No AWS Administrators have active Notion licenses",
              users |-> <<>>]
        ELSE [type |-> "intersection", title |-> "AWS Admin + Notion",
              status |-> "found", count |-> Len(rows.val),
              message |-> "users found", users |-> NotionUsers(rows.val)]

\* _analyze_apple_aws_crossref: any exception gives None.
AnalyzeAppleAwsCrossref(st) ==
    LET all == MakerAwsRows(st, "apple")
        apple_count == AppleBaseCount(st)
    IN  IF ~all.ok THEN None
        ELSE LET rows == Limit(all.val, CrossRefLimit)
             IN  IF Len(rows) = 0
                 THEN [type |-> "intersection", title |-> "Apple + AWS Admin",
                       status |-> "none", count |-> 0,
                       total_base |-> apple_count.val,
                       message |-> "None of the Apple laptop users have AWS Administrator access",
                       users |-> <<>>]
                 ELSE [type |-> "intersection", title |-> "Apple + AWS Admin",
                       status |-> "found", count |-> Len(rows),
                       message |-> "users found", users |-> DeviceUsers(rows)]

\* _analyze_geographic_aws_crossref: only Japan is analysed; India falls off the
\* end of the function (None), and any exception gives None.
AnalyzeGeographicAwsCrossref(question_lower, st) ==
    LET location == IF Has(question_lower, "japan") THEN "Japan"
                    ELSE IF Has(question_lower, "india") THEN "India"
                    ELSE "Unknown"
        rows == JapanAwsRows(st)
    IN  IF location # "Japan" THEN None
        ELSE IF ~rows.ok THEN None
        ELSE IF Len(rows.val) = 0
        THEN [type |-> "intersection", title |-> "Japan + AWS Admin",
              status |-> "none", count |-> 0,
              message |-> "No AWS Administrators identified as Japan-based employees",
              note |-> "Based on name patterns and .jp email domains",
              users |-> <<>>]
        ELSE [type |-> "intersection", title |-> "Japan + AWS Admin",
              status |-> "found", count |-> Len(rows.val),
              message |-> "users found",
              note |-> "Based on name patterns and .jp email domains",
              users |-> JapanUsers(rows.val)]

\* if cross_ref: cross_refs.append(cross_ref)
AppendIf(refs, cross_ref) == IF cross_ref = None THEN refs ELSE Append(refs, cross_ref)

WantsLenovoAws(ql) == Has(ql, "lenovo") /\ Has(ql, "aws") /\ Has(ql, "admin")
WantsAwsNotion(ql) == Has(ql, "aws") /\ Has(ql, "admin") /\ Has(ql, "notion")
WantsAppleAws(ql) ==
    (Has(ql, "apple") \/ Has(ql, "macbook")) /\ Has(ql, "aws") /\ Has(ql, "admin")
WantsGeoAws(ql) == (Has(ql, "japan") \/ Has(ql, "india")) /\ Has(ql, "aws")

\* _generate_cross_references (the analysers catch their own exceptions, so the
\* outer handler has nothing left to catch).
GenerateCrossReferences(question_lower, breakdown_data, st) ==
    LET r1 == IF WantsLenovoAws(question_lower)
              THEN AppendIf(<<>>, AnalyzeLenovoAwsCrossref(st)) ELSE <<>>
        r2 == IF WantsAwsNotion(question_lower)
              THEN AppendIf(r1, AnalyzeAwsNotionCrossref(st)) ELSE r1
        r3 == IF WantsAppleAws(question_lower)
              THEN AppendIf(r2, AnalyzeAppleAwsCrossref(st)) ELSE r2
        r4 == IF WantsGeoAws(question_lower)
              THEN AppendIf(r3, AnalyzeGeographicAwsCrossref(question_lower, st))
              ELSE r3
    IN  r4

(***************************************************************************)
(* Insight synthesis: breakdown of a zero-row question                     *)
(***************************************************************************)

\* A formatted message: its template and the number formatted into it.
Msg(template, n) == [msg |-> template, n |-> n]

\* _is_complex_multi_criteria_query
IsComplexMultiCriteriaQuery(ql) ==
    LET hw  == \E k \in {"lenovo", "apple", "laptop", "device"} : Has(ql, k)
        acc == \E k \in {"aws", "admin", "administrator"} : Has(ql, k)
        app == \E k \in {"notion", "github", "slack", "license"} : Has(ql, k)
        loc == \E k \in {"japan", "india", "bangalore"} : Has(ql, k)
        criteria_count == (IF hw THEN 1 ELSE 0) + (IF acc THEN 1 ELSE 0)
                            + (IF app THEN 1 ELSE 0) + (IF loc THEN 1 ELSE 0)
    IN  criteria_count >= 2

EmptyDict == [k \in {} |-> 0]

\* dict[key] = value
Put(d, k, v) == (k :> v) @@ d

\* _analyze_query_breakdown: the counts are taken one after the other inside one
\* try block; the first failing query ends the block with an 'error' key.
AnalyzeQueryBreakdown(ql, st) ==
    LET b1 == IF Has(ql, "lenovo")
              THEN Put(EmptyDict, "lenovo_users", MakerUserCount(st, "lenovo").val)
              ELSE EmptyDict
        wantAws == Has(ql, "aws") /\ Has(ql, "admin")
        aws == AwsAdminCount(st)
        b2 == IF wantAws /\ aws.ok THEN Put(b1, "aws_admins", aws.val) ELSE b1
        wantNotion == Has(ql, "notion")
        notion == NotionUserCount(st)
        b3 == IF wantNotion /\ notion.ok THEN Put(b2, "notion_users", notion.val)
              ELSE b2
        wantBoth == "lenovo_users" \in DOMAIN b3 /\ "aws_admins" \in DOMAIN b3
        both == LenovoAwsCount(st)
        b4 == IF wantBoth /\ both.ok THEN Put(b3, "lenovo_aws", both.val) ELSE b3
    IN  IF wantAws /\ ~aws.ok THEN Put(b1, "error", aws.msg)
        ELSE IF wantNotion /\ ~notion.ok THEN Put(b2, "error", notion.msg)
        ELSE IF wantBoth /\ ~both.ok THEN Put(b3, "error", both.msg)
        ELSE b4

\* _generate_breakdown_insights
GenerateBreakdownInsights(b) ==
    IF "error" \in DOMAIN b THEN << Msg("Analysis error", 0) >>
    ELSE << Msg("Breakdown Analysis:", 0) >>
         \o (IF "lenovo_users" \in DOMAIN b
             THEN << Msg("Lenovo laptop users", b["lenovo_users"]) >> ELSE <<>>)
         \o (IF "aws_admins" \in DOMAIN b
             THEN << Msg("AWS Admin users", b["aws_admins"]) >> ELSE <<>>)
         \o (IF "notion_users" \in DOMAIN b
             THEN << Msg("Notion license users", b["notion_users"]) >> ELSE <<>>)
         \o (IF "lenovo_aws" \in DOMAIN b
             THEN << Msg("Cross-Reference: Lenovo + AWS Admin", b["lenovo_aws"]) >>
                  \o (IF b["lenovo_aws"] = 0 /\ Get(b, "lenovo_users", 0) > 0
                      THEN << Msg("Key Finding: No Lenovo users have AWS Administrator access", 0) >>
                      ELSE <<>>)
             ELSE <<>>)

\* _generate_alternative_suggestions
GenerateAlternativeSuggestions(ql, b) ==
    (IF Has(ql, "lenovo") /\ Get(b, "lenovo_aws", 0) = 0
     THEN << "Try: 'Apple laptop users with AWS admin access'" >> ELSE <<>>)
    \o (IF Has(ql, "aws") /\ Has(ql, "admin")
        THEN << "Try: 'What devices do AWS admins use?'" >> ELSE <<>>)

(***************************************************************************)
(* Insight synthesis: commentary on a non-empty result                     *)
(***************************************************************************)

\* Number of rows of results whose field f (default dflt) equals v.
CountField(results, f, dflt, v) ==
    Cardinality({i \in 1..Len(results) : Get(results[i], f, dflt) = v})

\* max(counts, key=counts.get) over a dict filled in row order: the value with
\* the highest count, the first seen among equals.
TopValue(results, f, dflt) ==
    LET val(i) == Get(results[i], f, dflt)
        cnt(i) == CountField(results, f, dflt, val(i))
        best == CHOOSE i \in 1..Len(results) :
                   /\ \A j \in 1..Len(results) : cnt(j) <= cnt(i)
                   /\ \A j \in 1..(i - 1) : cnt(j) < cnt(i)
    IN  [value |-> val(best), count |-> cnt(best)]

\* _analyze_device_results
AnalyzeDeviceResults(results) ==
    IF results = <<>> THEN <<>>
    ELSE LET top == TopValue(results, "Manufacturer", "Unknown")
         IN  << [msg |-> "Hardware: primary manufacturer", n |-> top.count,
                 value |-> top.value] >>

\* _analyze_license_results
AnalyzeLicenseResults(results) ==
    IF results # <<>>
    THEN << Msg("License Status: All results show active application licenses", 0) >>
    ELSE <<>>

\* _determine_analysis_type
DetermineAnalysisType(ql) ==
    IF Has(ql, "aws") /\ Has(ql, "admin") THEN "security_analysis"
    ELSE IF Has(ql, "japan") THEN "geographic_analysis"
    ELSE IF Has(ql, "laptop") \/ Has(ql, "device") THEN "hardware_analysis"
    ELSE IF Has(ql, "license") \/ Has(ql, "notion") THEN "software_analysis"
    ELSE "general_query"

\* _generate_summary
GenerateSummary(question, count) ==
    IF count = 0
    THEN [template |-> "returned no results", question |-> question, n |-> 0]
    ELSE [template |-> "successfully found matching records",
          question |-> question, n |-> count]

\* _generate_key_findings
GenerateKeyFindings(ql, results, b) ==
    LET aws_admin_count == Get(b, "aws_admins", 0)
        lenovo_count == Get(b, "lenovo_users", 0)
        notion_count == Get(b, "notion_users", 0)
        japanese_indicators ==
            Cardinality({i \in 1..Len(results) :
                \/ \E nm \in {"tomoyo", "mari", "kohei", "yuki", "akira"} :
                      nm \in SubWords(LowerTok(Get(results[i], "First_Name", "")))
                \/ ".jp" \in SubWords(LowerTok(Get(results[i], "Email", "")))})
    IN  (IF Has(ql, "aws") /\ Has(ql, "admin") /\ aws_admin_count > 0
         THEN << Msg("users have AWS Administrator access in the system", aws_admin_count) >>
              \o (IF results # <<>>
                  THEN << Msg("Most AWS admins are of one role",
                              TopValue(results, "Job_Title", "Unknown").count) >>
                  ELSE <<>>)
         ELSE <<>>)
        \o (IF (Has(ql, "lenovo") \/ Has(ql, "laptop")) /\ lenovo_count > 0
            THEN << Msg("employees are assigned Lenovo devices", lenovo_count) >>
                 \o (IF Has(ql, "aws") /\ Get(b, "lenovo_aws", 0) = 0
                     THEN << Msg("No overlap between Lenovo users and AWS administrators", 0) >>
                     ELSE <<>>)
            ELSE <<>>)
        \o (IF Has(ql, "japan") /\ japanese_indicators > 0
            THEN << Msg("users identified as likely Japanese employees", japanese_indicators) >>
            ELSE <<>>)
        \o (IF Has(ql, "notion") /\ notion_count > 0
            THEN << Msg("employees have active Notion licenses", notion_count) >>
            ELSE <<>>)
        \o (IF Len(results) = 0 /\ IsComplexMultiCriteriaQuery(ql)
            THEN << Msg("Complex criteria analysis shows no users match all requirements simultaneously", 0),
                    Msg("Consider relaxing one or more criteria to find related users", 0) >>
            ELSE <<>>)

(***************************************************************************)
(* Insight synthesis: the detailed component breakdown                     *)
(***************************************************************************)

Comp(name, count) ==
    [name |-> name, count |-> count,
     status |-> IF count > 0 THEN "success" ELSE "warning"]

ErrComp(name, m) == [name |-> name, count |-> 0, status |-> "error", details |-> m]

\* One statement of a try block: whether its condition holds, and its outcome
\* (the component entries it appends, or the exception).
Step(run, out) == [run |-> run, out |-> out]

RECURSIVE TryBlock(_, _, _)
\* Runs the steps in order; the first exception ends the block and appends the
\* error entry of the except clause to what was collected so far.
TryBlock(steps, acc, errName) ==
    IF steps = <<>> THEN acc
    ELSE LET s == Head(steps)
         IN  IF ~s.run THEN TryBlock(Tail(steps), acc, errName)
             ELSE IF ~s.out.ok THEN Append(acc, ErrComp(errName, s.out.msg))
             ELSE TryBlock(Tail(steps), acc \o s.out.val, errName)

\* _analyze_device_components
AnalyzeDeviceComponents(ql, st) ==
    LET total == Cardinality({i \in 1..Len(st.devices) : InUse(st.devices[i])})
    IN  TryBlock(
          << Step(TRUE, Ok(IF total > 0 THEN << Comp("Active Devices", total) >>
                           ELSE <<>>)),
             Step(Has(ql, "lenovo"),
                  Ok(<< Comp("Lenovo laptop users", MakerUserCount(st, "lenovo").val) >>)),
             Step(Has(ql, "apple") \/ Has(ql, "macbook"),
                  Ok(<< Comp("Apple laptop users", MakerUserCount(st, "apple").val) >>)) >>,
          <<>>, "Device Analysis Error")

\* _analyze_user_components
AnalyzeUserComponents(ql, st) ==
    LET total_users ==
            Cardinality({p.Email : p \in {x \in Range(st.provisions) : x.Email # ""}})
        active_employees ==
            Cardinality({d.Assigned_User_s_Email : d \in
                {x \in Range(st.devices) : InUse(x) /\ Assigned(x)}})
    IN  TryBlock(
          << Step(TRUE, Ok(IF total_users > 0
                           THEN << Comp("Total Users", total_users) >> ELSE <<>>)),
             Step(TRUE, Ok(IF active_employees > 0
                           THEN << Comp("Active Employees", active_employees) >>
                           ELSE <<>>)) >>,
          <<>>, "User Analysis Error")

\* COUNT(DISTINCT Email) FROM app_portfolio WHERE App LIKE '%GITHUB%' AND activated
GithubUserCount(st) ==
    IF NoPortfolio(st) THEN Raise("no such table: app_portfolio")
    ELSE Ok(Cardinality({ap.Email : ap \in
               {x \in Range(st.app_portfolio) :
                   LikeKw(x.App, "github") /\ x.Account_Status = "Activated"}}))

AsComp(name, out) == IF out.ok THEN Ok(<< Comp(name, out.val) >>) ELSE out

\* _analyze_application_components
AnalyzeApplicationComponents(ql, st) ==
    TryBlock(
      << Step(Has(ql, "aws") /\ Has(ql, "admin"),
              AsComp("AWS Admin users", AwsAdminCount(st))),
         Step(Has(ql, "notion"), AsComp("Notion license users", NotionUserCount(st))),
         Step(Has(ql, "github"), AsComp("GitHub users", GithubUserCount(st))) >>,
      <<>>, "App Analysis Error")

\* COUNT(DISTINCT Assigned_User_s_Email) FROM devices WHERE (Region LIKE region
\* OR City LIKE city) AND in use
RegionUserCount(st, region, city) ==
    IF "devices.City" \in st.missing THEN Raise("no such column: City")
    ELSE Ok(Cardinality({d.Assigned_User_s_Email : d \in
               {x \in Range(st.devices) :
                   (LikeKw(x.Region, region) \/ LikeKw(x.City, city)) /\ InUse(x)}}))

JapaneseNameCount(st) ==
    Cardinality({p.Email : p \in {x \in Range(st.provisions) : LooksJapanese(x)}})

Max(a, b) == IF a > b THEN a ELSE b

\* _analyze_geographic_components
AnalyzeGeographicComponents(ql, st) ==
    LET japan == RegionUserCount(st, "japan", "tokyo")
        india == RegionUserCount(st, "india", "bangalore")
    IN  TryBlock(
          << Step(Has(ql, "japan") \/ Has(ql, "tokyo"),
                  IF japan.ok
                  THEN Ok(<< Comp("Japan-based users",
                                  Max(japan.val, JapaneseNameCount(st))) >>)
                  ELSE japan),
             Step(Has(ql, "india") \/ Has(ql, "bangalore"),
                  AsComp("India-based users", india)) >>,
          <<>>, "Geographic Analysis Error")

RECURSIVE OrderByCountDesc(_, _)
\* GROUP BY Department_s ORDER BY count DESC over the distinct departments.
OrderByCountDesc(depts, rows) ==
    IF depts = {} THEN <<>>
    ELSE LET n(d) == Cardinality({i \in 1..Len(rows) : rows[i].Department_s = d})
             m == CHOOSE d \in depts : \A e \in depts : n(e) <= n(d)
         IN  << [name |-> m, count |-> n(m), status |-> "success"] >>
               \o OrderByCountDesc(depts \ {m}, rows)

\* _analyze_role_components
AnalyzeRoleComponents(ql, st) ==
    LET depts == {r.Department_s : r \in Range(st.app_portfolio)} \ {""}
    IN  IF NoPortfolio(st)
        THEN << ErrComp("Role Analysis Error", "no such table: app_portfolio") >>
        ELSE Limit(OrderByCountDesc(depts, st.app_portfolio), 3)

HasComp(components, name) == \E i \in 1..Len(components) : components[i].name = name

\* COUNT(DISTINCT ap.Email) FROM app_portfolio ap JOIN provisions p WHERE AWS
\* administrator (any account status) AND Notion activated
AwsNotionCount(st) ==
    IF NoPortfolio(st) THEN Raise("no such table: app_portfolio")
    ELSE IF NoNotion(st) THEN Raise("no such column: p.Notion_-_Josys_inc")
    ELSE Ok(Cardinality({ap.Email : ap \in
               {x \in Range(st.app_portfolio) :
                   /\ LikeKw(x.App, "aws") /\ LikeKw(x.Role_s, "administrator")
                   /\ \E p \in Range(st.provisions) :
                         p.Email = x.Email /\ HasNotion(p)}}))

\* _analyze_component_intersections
AnalyzeComponentIntersections(ql, components, st) ==
    TryBlock(
      << Step(HasComp(components, "Lenovo laptop users")
                /\ HasComp(components, "AWS Admin users"),
              AsComp("Lenovo users with AWS Admin", LenovoAwsCount(st))),
         Step(HasComp(components, "AWS Admin users")
                /\ HasComp(components, "Notion license users"),
              AsComp("AWS Admins with Notion", AwsNotionCount(st))) >>,
      <<>>, "Intersection Analysis Error")

AnyHas(ql, kws) == \E k \in kws : Has(ql, k)

\* _generate_detailed_breakdown_analysis
GenerateDetailedBreakdownAnalysis(ql, results, st) ==
    LET components_found ==
            (IF AnyHas(ql, {"laptop", "device", "computer", "phone", "lenovo",
                            "apple", "macbook"})
             THEN AnalyzeDeviceComponents(ql, st) ELSE <<>>)
            \o (IF AnyHas(ql, {"user", "employee", "person", "people", "staff"})
                THEN AnalyzeUserComponents(ql, st) ELSE <<>>)
            \o (IF AnyHas(ql, {"aws", "admin", "notion", "github", "slack", "app",
                               "access", "license"})
                THEN AnalyzeApplicationComponents(ql, st) ELSE <<>>)
            \o (IF AnyHas(ql, {"japan", "india", "bangalore", "tokyo", "location"})
                THEN AnalyzeGeographicComponents(ql, st) ELSE <<>>)
            \o (IF AnyHas(ql, {"role", "department", "title", "position"})
                THEN AnalyzeRoleComponents(ql, st) ELSE <<>>)
    IN  [title |-> "Individual Components",
         components |-> components_found,
         intersections |-> IF Len(components_found) > 1
                           THEN AnalyzeComponentIntersections(ql, components_found, st)
                           ELSE <<>>,
         summary |-> Len(components_found)]

(***************************************************************************)
(* _generate_comprehensive_insights                                        *)
(***************************************************************************)

\* Milliseconds above which the execution-time remark says "slow".
SlowMillis == 1000

GenerateComprehensiveInsights(question, result, st) ==
    LET ql == Lower(question)
        results == result.results
        count == result.count
        complex == count = 0 /\ IsComplexMultiCriteriaQuery(ql)
        breakdown_data == IF complex THEN AnalyzeQueryBreakdown(ql, st)
                          ELSE EmptyDict
        insights ==
            (IF count = 0
             THEN << Msg("No results found matching your criteria.", 0) >>
                  \o (IF complex THEN GenerateBreakdownInsights(breakdown_data)
                      ELSE <<>>)
             ELSE << Msg("Found results matching your criteria.", count) >>
                  \o (IF Has(ql, "aws") /\ Has(ql, "admin")
                      THEN << Msg("Security Note: users with AWS administrative privileges found.", count) >>
                      ELSE <<>>)
                  \o (IF Has(ql, "japan") \/ AnyHas(ql, {"tomoyo", "mari", "kohei"})
                      THEN << Msg("Geographic Analysis: Identified Japanese employees in the system.", count) >>
                      ELSE <<>>)
                  \o (IF Has(ql, "laptop") \/ Has(ql, "device")
                      THEN AnalyzeDeviceResults(results) ELSE <<>>)
                  \o (IF Has(ql, "notion") \/ Has(ql, "license")
                      THEN AnalyzeLicenseResults(results) ELSE <<>>))
            \o (IF result.execution_time > SlowMillis
                THEN << Msg("Query executed slowly - complex cross-table analysis performed.", result.execution_time) >>
                ELSE IF result.execution_time > 0
                THEN << Msg("Fast execution", result.execution_time) >>
                ELSE <<>>)
        suggestions == IF complex
                       THEN GenerateAlternativeSuggestions(ql, breakdown_data)
                       ELSE <<>>
    IN  [insights |-> insights,
         breakdown_data |-> breakdown_data,
         detailed_breakdown |-> GenerateDetailedBreakdownAnalysis(ql, results, st),
         suggestions |-> suggestions,
         key_findings |-> GenerateKeyFindings(ql, results, breakdown_data),
         cross_references |-> GenerateCrossReferences(ql, breakdown_data, st),
         analysis_type |-> DetermineAnalysisType(ql),
         comprehensive_summary |-> GenerateSummary(question, count)]
        @@ result

(***************************************************************************)
(* natural_language_to_sql and combined_nlp_search                         *)
(***************************************************************************)

\* cache_key = f"nl2sql:{question.lower()}"
\* Variant of CacheKey that keeps the letter case of the question.
CacheKey_CaseSensitive(question) == <<"nl2sql:">> \o question

\* Variant of CacheKey that gives every question the same key.
CacheKey_Constant(question) == <<"nl2sql:">>

\* cache_key = f"nl2sql:{question.lower()}"
CacheKey(question) == <<"nl2sql:">> \o Lower(question)

\* The except clause of the inner try: sqlite3.Error.
SqlErrorResult(question, sql, m, elapsed) ==
    [question |-> question, sql |-> sql,
     error |-> <<"SQL execution error: ", m>>, status |-> "sql_error",
     execution_time |-> elapsed]

\* The except clause of the outer try: any other exception raised between the
\* API call and the return, the SQL execution and the synthesis included.
ApiErrorResult(question, m, elapsed) ==
    [question |-> question, error |-> <<"OpenAI API error: ", m>>,
     status |-> "api_error", execution_time |-> elapsed]

\* Variant of CachedCopy that returns the entry as it was stored.
CachedCopy_Unflagged(entry) == entry

\* cached = self.query_cache[cache_key].copy(); cached['cached'] = True
CachedCopy(entry) == [entry EXCEPT !.cached = TRUE]

\* Variant of CacheStore that writes nothing.
CacheStore_Skip(cache, cache_key, enhanced_result) == cache

\* Variant of CacheStore that keeps only the newest entry.
CacheStore_Evicting(cache, cache_key, enhanced_result) ==
    cache_key :> enhanced_result

\* self.query_cache[cache_key] = enhanced_result.copy()
CacheStore(cache, cache_key, enhanced_result) == Put(cache, cache_key, enhanced_result)

\* The four ways natural_language_to_sql returns after a cache miss, each with
\* the returned dict, the cache and store it leaves, what was done (trace) and
\* how the oracle path ended (path).
\* Variant of OracleErrorOutcome that calls the oracle a second time.
OracleErrorOutcome_Retrying(question, m, elapsed, cache, st) ==
    [result |-> ApiErrorResult(question, m, elapsed),
     cache |-> cache, store |-> st, trace |-> <<"oracle_call", "oracle_call">>,
     path |-> "oracle_error"]

OracleErrorOutcome(question, m, elapsed, cache, st) ==
    [result |-> ApiErrorResult(question, m, elapsed),
     cache |-> cache, store |-> st, trace |-> <<"oracle_call">>,
     path |-> "oracle_error"]

\* Variant of SqlErrorOutcome that also writes the error result to the cache.
SqlErrorOutcome_Cached(question, sql_query, m, elapsed, cache, st) ==
    [result |-> SqlErrorResult(question, sql_query, m, elapsed),
     cache |-> CacheStore(cache, CacheKey(question),
                          SqlErrorResult(question, sql_query, m, elapsed)),
     store |-> st,
     trace |-> <<"oracle_call", "oracle_sql">>, path |-> "sql_error"]

SqlErrorOutcome(question, sql_query, m, elapsed, cache, st) ==
    [result |-> SqlErrorResult(question, sql_query, m, elapsed),
     cache |-> cache, store |-> st,
     trace |-> <<"oracle_call", "oracle_sql">>, path |-> "sql_error"]

ExecExceptionOutcome(question, sql_query, m, elapsed, cache, st) ==
    [result |-> ApiErrorResult(question, m, elapsed),
     cache |-> cache, store |-> st,
     trace |-> <<"oracle_call", "oracle_sql">>, path |-> "exec_exception"]

SuccessOutcome(question, sql_query, rows, elapsed, cache, st) ==
    Bind(GenerateComprehensiveInsights(question,
             [question |-> question, sql |-> sql_query, results |-> rows,
              count |-> Len(rows), execution_time |-> elapsed,
              method |-> "openai_nl2sql", status |-> "success", cached |-> FALSE],
             st),
         LAMBDA enhanced_result :
           [result |-> enhanced_result,
            cache |-> CacheStore(cache, CacheKey(question), enhanced_result),
            store |-> st,
            trace |-> <<"oracle_call", "oracle_sql", "synthesis">>,
            path |-> "success"])

\* natural_language_to_sql
NaturalLanguageToSql(question, reply, elapsed, cache, st) ==
    LET cache_key == CacheKey(question)
        sql_query == CleanSql(reply.content)
        exec == ExecuteOracleSql(sql_query, st)
    IN  IF cache_key \in DOMAIN cache
        THEN [result |-> CachedCopy(cache[cache_key]),
              cache |-> cache, store |-> st, trace |-> <<>>, path |-> "cache_hit"]
        ELSE IF reply.raises
        THEN OracleErrorOutcome(question, reply.msg, elapsed, cache, st)
        ELSE IF reply.content = NoContent
        THEN OracleErrorOutcome(question,
                 "'NoneType' object has no attribute 'strip'", elapsed, cache, st)
        ELSE IF exec.kind = "sqlite3.Error"
        THEN SqlErrorOutcome(question, sql_query, exec.msg, elapsed, cache, st)
        ELSE IF exec.kind = "Exception"
        THEN ExecExceptionOutcome(question, sql_query, exec.msg, elapsed, cache, st)
        ELSE SuccessOutcome(question, sql_query, exec.rows, elapsed, cache, exec.store)

\* Variant of FallbackReason that ignores the error text of the oracle path.
FallbackReason_NoText(nl2sql_result) == <<"NL2SQL failed: ", "No results">>

\* fallback_result['fallback_reason'] = f"NL2SQL failed: {nl2sql_result.get('error', 'No results')}"
FallbackReason(nl2sql_result) ==
    <<"NL2SQL failed: ">> \o Get(nl2sql_result, "error", <<"No results">>)

\* fallback_result['attempted_sql'] = nl2sql_result.get('sql', 'N/A')
AttemptedSql(nl2sql_result) == Get(nl2sql_result, "sql", <<"N/A">>)

\* Variant of UseOracleResult that takes every success, rows or not.
UseOracleResult_AnySuccess(nl2sql_result) == nl2sql_result.status = "success"

\* Variant of UseOracleResult that always goes on to the keyword fallback.
UseOracleResult_Never(nl2sql_result) == FALSE

\* if nl2sql_result['status'] == 'success' and nl2sql_result['count'] > 0
UseOracleResult(nl2sql_result) ==
    nl2sql_result.status = "success" /\ nl2sql_result.count > 0

\* Variant of Annotate that also copies the fields of the oracle result.
Annotate_Merging(fallback_result, nl2sql_result) ==
    [method |-> "combined_keyword_fallback",
     fallback_reason |-> FallbackReason(nl2sql_result),
     attempted_sql |-> AttemptedSql(nl2sql_result)]
    @@ fallback_result @@ nl2sql_result

\* The three assignments to fallback_result before it is returned.
Annotate(fallback_result, nl2sql_result) ==
    [method |-> "combined_keyword_fallback",
     fallback_reason |-> FallbackReason(nl2sql_result),
     attempted_sql |-> AttemptedSql(nl2sql_result)]
    @@ fallback_result

\* Variant of MarkPrimary in which the returned dict is the cache entry itself.
MarkPrimary_Shared(nl2sql_result, cache) ==
    [result |-> [nl2sql_result EXCEPT !.method = "combined_nl2sql_primary"],
     cache |-> [cache EXCEPT ![CacheKey(nl2sql_result.question)] =
                   [nl2sql_result EXCEPT !.method = "combined_nl2sql_primary"]]]

\* nl2sql_result['method'] = 'combined_nl2sql_primary'. The dict is the one
\* natural_language_to_sql returned: enhanced_result, of which the cache holds
\* a copy, or the copy made of the cache entry on a hit; the assignment
\* changes that dict and no entry of the cache.
MarkPrimary(nl2sql_result, cache) ==
    [result |-> [nl2sql_result EXCEPT !.method = "combined_nl2sql_primary"],
     cache |-> cache]

\* combined_nlp_search
CombinedNlpSearch(question, reply, elapsed, cache, st) ==
    Bind(NaturalLanguageToSql(question, reply, elapsed.nl2sql, cache, st),
         LAMBDA nl :
    LET nl2sql_result == nl.result
        fb == KeywordFallbackSearch(question, DefaultLimit, elapsed.fallback, nl.store)
    IN  IF UseOracleResult(nl2sql_result)
        THEN [result |-> MarkPrimary(nl2sql_result, nl.cache).result,
              nl2sql |-> nl2sql_result, path |-> nl.path,
              cache |-> MarkPrimary(nl2sql_result, nl.cache).cache,
              store |-> nl.store, trace |-> nl.trace]
        ELSE [result |-> Annotate(fb.result, nl2sql_result),
              nl2sql |-> nl2sql_result, path |-> nl.path,
              cache |-> nl.cache, store |-> fb.store,
              trace |-> nl.trace \o fb.trace])

(***************************************************************************)
(* The HTTP endpoint POST /api/nlp-search                                  *)
(***************************************************************************)

\* A JSON string value / a JSON number as the value of "question".
Str(text) == [type |-> "str", text |-> text]
Num       == [type |-> "int"]

\* Request bodies: no JSON at all, the JSON value null, or a JSON object.
NoJson       == [kind |-> "no_json"]
JsonNull     == [kind |-> "null"]
JsonObject(d) == [kind |-> "object", data |-> d]

Error400(m) == [http |-> 400, body |-> [error |-> m, status |-> "error"]]
Error500(m) == [http |-> 500,
                body |-> [error |-> m, status |-> "error", method |-> "api_error"]]

\* data.get('question', '')
RawQuestion(data) == Get(data, "question", Str(<<>>))

\* Variant of QuestionOf without the strip().
QuestionOf_Untrimmed(data) == RawQuestion(data).text

\* question = data.get('question', '').strip()
QuestionOf(data) == Strip(RawQuestion(data).text)

\* if len(question) < 3
MinQuestionLen == 3

\* api_nlp_search: the HTTP response, and the cache, store and trace after it.
ApiNlpSearch(body, reply, elapsed, cache, st) ==
    LET untouched(resp) ==
            [response |-> resp, cache |-> cache, store |-> st, trace |-> <<>>,
             path |-> "rejected", nl2sql |-> None]
        raw == RawQuestion(body.data)
        question == QuestionOf(body.data)
    IN  IF body.kind = "no_json"
        THEN untouched(Error500("request body is not JSON"))
        ELSE IF body.kind = "null"
        THEN untouched(Error500("'NoneType' object has no attribute 'get'"))
        ELSE IF raw.type # "str"
        THEN untouched(Error500("'int' object has no attribute 'strip'"))
        ELSE IF question = <<>>
        THEN untouched(Error400("Question is required"))
        ELSE IF TextLen(question) < MinQuestionLen
        THEN untouched(Error400("Question too short"))
        ELSE Bind(CombinedNlpSearch(question, reply, elapsed, cache, st),
                  LAMBDA search :
                    [response |-> [http |-> 200, body |-> search.result],
                     cache |-> search.cache, store |-> search.store,
                     trace |-> search.trace, path |-> search.path,
                     nl2sql |-> search.nl2sql])

(***************************************************************************)
(* The served process                                                      *)
(***************************************************************************)

\* Elapsed wall-clock times (milliseconds) of the oracle path and the fallback.
ElapsedTimes == {[nl2sql |-> 400, fallback |-> 20],
                 [nl2sql |-> 1500, fallback |-> 30]}

Bodies ==
    {NoJson, JsonNull, JsonObject(EmptyDict),
     JsonObject([question |-> Num]),
     JsonObject([question |-> Str(<<" ">>)]),
     JsonObject([question |-> Str(<<" ", "ab", " ">>)]),
     JsonObject([question |-> Str(<<"lenovo">>)]),
     JsonObject([question |-> Str(<<"Lenovo", " ">>)]),
     JsonObject([question |-> Str(<<"lenovo", " ", "aws", " ", "admin", " ", "notion">>)]),
     JsonObject([question |-> Str(<<"lenovo", " ", " ", "aws", " ", "admin", " ", "notion">>)])}

ServedStores == {StoreIngested, StoreDisjoint, StoreOverlap}

NoRequest == [op |-> "none"]

\* The two request threads of the threaded server, and a thread that has no
\* request yet.
Threads == {"t1", "t2"}

IdleHandler ==
    [pc |-> "idle", question |-> <<>>, sql |-> <<>>, rows |-> <<>>,
     nl2sql |-> None, response |-> None, trace |-> <<>>, path |-> "none"]

Init ==
    /\ store \in ServedStores
    /\ query_cache = EmptyDict
    /\ last = NoRequest
    /\ requests = 0
    /\ handlers = [t \in Threads |-> IdleHandler]

\* One POST /api/nlp-search handled from start to end.
NlpSearch ==
    /\ requests < MaxRequests
    /\ \E body \in Bodies, reply \in OracleReplies, elapsed \in ElapsedTimes :
         \E h \in {ApiNlpSearch(body, reply, elapsed, query_cache, store)} :
             /\ query_cache' = h.cache
             /\ store' = h.store
             /\ last' = [op |-> "nlp-search", body |-> body,
                         reply |-> IF "oracle_call" \in Range(h.trace)
                                   THEN reply ELSE None,
                         http |-> h.response.http, response |-> h.response.body,
                         nl2sql |-> h.nl2sql, path |-> h.path, trace |-> h.trace]
             /\ requests' = requests + 1
             /\ UNCHANGED handlers

Next == NlpSearch

Spec == Init /\ [][Next]_vars

\* One GET /api/status.
ApiStatus ==
    /\ \E database_connected \in BOOLEAN :
           last' = [op |-> "status", http |-> 200,
                    response |-> [status |-> "running",
                                  openai_connected |-> TRUE,
                                  database_connected |-> database_connected,
                                  cache_size |-> Cardinality(DOMAIN query_cache)]]
    /\ UNCHANGED <<store, query_cache, requests, handlers>>

NextWithStatus == NlpSearch \/ ApiStatus

SpecStatus == Init /\ [][NextWithStatus]_vars

(***************************************************************************)
(* The keyword fallback on its own, over every store and limit             *)
(***************************************************************************)

KeywordQueries ==
    {<<"lenovo">>, <<"LENOVO">>, <<"bob">>, <<"laptop">>, <<"engineer">>,
     <<"zzz">>, <<"corp">>, <<"lenovo", " ", "aws">>}

KeywordLimits == {0, 1, 2, 5, 10, 11}

InitAnyStore ==
    /\ store \in Stores
    /\ query_cache = EmptyDict
    /\ last = NoRequest
    /\ requests = 0
    /\ handlers = [t \in Threads |-> IdleHandler]

\* One call of _keyword_fallback_search(query, limit).
KeywordSearch ==
    /\ requests < MaxRequests
    /\ \E query \in KeywordQueries, limit \in KeywordLimits :
         \E fb \in {KeywordFallbackSearch(query, limit, 20, store)} :
             /\ last' = [op |-> "keyword", query |-> query, limit |-> limit,
                         result |-> fb.result, raised |-> fb.raised,
                         trace |-> fb.trace,
                         again |-> /\ last.op = "keyword"
                                   /\ last.query = query
                                   /\ last.limit = limit]
             /\ store' = fb.store
    /\ requests' = requests + 1
    /\ UNCHANGED <<query_cache, handlers>>

SpecKeyword == InitAnyStore /\ [][KeywordSearch]_vars

(***************************************************************************)
(* The insight synthesis on its own, over every keyword combination        *)
(***************************************************************************)

SynthWords == <<"lenovo", "apple", "aws", "admin", "notion", "japan", "india">>

SynthKeywordSets ==
    {{"lenovo"}, {"notion"}, {"aws", "admin"}, {"lenovo", "apple"},
     {"lenovo", "aws"}, {"lenovo", "aws", "admin"}, {"aws", "admin", "notion"},
     {"apple", "aws", "admin"}, {"japan", "aws", "admin"},
     {"india", "aws", "admin"}, {"japan", "aws"},
     {"lenovo", "aws", "admin", "notion"},
     {"apple", "aws", "admin", "notion", "japan"},
     Range(SynthWords)}

RECURSIVE Join(_)
\* " ".join(words)
Join(words) ==
    IF Len(words) <= 1 THEN words
    ELSE <<Head(words), " ">> \o Join(Tail(words))

\* One question for each chosen set of keywords.
SynthQuestions ==
    {Join(SelectSeq(SynthWords, LAMBDA w : w \in S)) : S \in SynthKeywordSets}

\* One call of _generate_comprehensive_insights on a successful oracle result
\* without rows, or with all device rows.
Synthesize ==
    /\ requests < MaxRequests
    /\ \E question \in SynthQuestions, rows \in {<<>>, store.devices} :
         \E enhanced \in {GenerateComprehensiveInsights(question,
               [question |-> question, sql |-> <<"SELECT ...">>, results |-> rows,
                count |-> Len(rows), execution_time |-> 400,
                method |-> "openai_nl2sql", status |-> "success", cached |-> FALSE],
               store)} :
             last' = [op |-> "synthesis", question |-> question,
                      enhanced |-> enhanced]
    /\ requests' = requests + 1
    /\ UNCHANGED <<store, query_cache, handlers>>

SpecSynth == InitAnyStore /\ [][Synthesize]_vars

(***************************************************************************)
(* Two request threads on the one interface object (app.run threaded=True) *)
(***************************************************************************)

\* Questions of concurrent requests: two spellings with one cache key, and a
\* question with another key.
ConcQuestions == {<<"lenovo">>, <<"Lenovo">>, <<"bob">>}

\* Oracle replies of concurrent requests: a failed call, a query with rows, a
\* query without rows, a misspelt query.
ConcReplies ==
    {[raises |-> TRUE, msg |-> "Connection error."],
     [raises |-> FALSE, content |-> <<"SELECT * FROM devices">>],
     [raises |-> FALSE, content |-> <<"sql", " ", "SELECT * FROM devices WHERE 0">>],
     [raises |-> FALSE, content |-> <<"SELEC">>]}

ConcElapsed == [nl2sql |-> 400, fallback |-> 20]

InitConc ==
    /\ store \in {StoreIngested, StoreOverlap}
    /\ query_cache = EmptyDict
    /\ last = NoRequest
    /\ requests = 0
    /\ handlers = [t \in Threads |-> IdleHandler]

\* The thread t goes on with the local state h.
Goes(t, h) == handlers' = [handlers EXCEPT ![t] = h]

\* A request arrives and passes validation.
Receive(t) ==
    /\ handlers[t].pc = "idle"
    /\ \E question \in ConcQuestions :
           Goes(t, [handlers[t] EXCEPT !.pc = "check_cache",
                                       !.question = question])
    /\ UNCHANGED <<store, query_cache, last, requests>>

\* if cache_key in self.query_cache: return the flagged copy
CheckCache(t) ==
    /\ handlers[t].pc = "check_cache"
    /\ LET h == handlers[t]
           cache_key == CacheKey(h.question)
       IN  IF cache_key \in DOMAIN query_cache
           THEN Goes(t, [h EXCEPT !.pc = "decide", !.path = "cache_hit",
                                  !.nl2sql = CachedCopy(query_cache[cache_key])])
           ELSE Goes(t, [h EXCEPT !.pc = "call_oracle"])
    /\ UNCHANGED <<store, query_cache, last, requests>>

\* self.openai_client.chat.completions.create(...) and the clean-up of its text
CallOracle(t) ==
    /\ handlers[t].pc = "call_oracle"
    /\ \E reply \in ConcReplies :
         LET h == [handlers[t] EXCEPT !.trace = Append(@, "oracle_call")]
             failed == OracleErrorOutcome(h.question, reply.msg, ConcElapsed.nl2sql,
                                          query_cache, store)
         IN  IF reply.raises
             THEN Goes(t, [h EXCEPT !.pc = "decide", !.path = failed.path,
                                    !.nl2sql = failed.result])
             ELSE Goes(t, [h EXCEPT !.pc = "execute",
                                    !.sql = CleanSql(reply.content)])
    /\ UNCHANGED <<store, query_cache, last, requests>>

\* cursor = self.conn.execute(sql_query): the statement is started on the
\* shared connection.
Execute(t) ==
    /\ handlers[t].pc = "execute"
    /\ LET h == [handlers[t] EXCEPT !.trace = Append(@, "oracle_sql")]
           exec == ExecuteOracleSql(h.sql, store)
           failed == SqlErrorOutcome(h.question, h.sql, exec.msg,
                                     ConcElapsed.nl2sql, query_cache, store)
       IN  IF exec.kind = "rows"
           THEN /\ Goes(t, [h EXCEPT !.pc = "fetch", !.rows = exec.rows])
                /\ store' = exec.store
           ELSE /\ Goes(t, [h EXCEPT !.pc = "decide", !.path = failed.path,
                                     !.nl2sql = failed.result])
                /\ UNCHANGED store
    /\ UNCHANGED <<query_cache, last, requests>>

\* results = [dict(row) for row in cursor.fetchall()]: the statement ends;
\* then the insight synthesis on the result.
FetchAndSynthesize(t) ==
    /\ handlers[t].pc = "fetch"
    /\ LET h == handlers[t]
           done == SuccessOutcome(h.question, h.sql, h.rows, ConcElapsed.nl2sql,
                                  query_cache, store)
       IN  Goes(t, [h EXCEPT !.pc = "write_cache", !.path = done.path,
                             !.nl2sql = done.result,
                             !.trace = Append(@, "synthesis")])
    /\ UNCHANGED <<store, query_cache, last, requests>>

\* self.query_cache[cache_key] = enhanced_result.copy()
WriteCache(t) ==
    /\ handlers[t].pc = "write_cache"
    /\ query_cache' = CacheStore(query_cache, CacheKey(handlers[t].question),
                                 handlers[t].nl2sql)
    /\ Goes(t, [handlers[t] EXCEPT !.pc = "decide"])
    /\ UNCHANGED <<store, last, requests>>

\* combined_nlp_search after natural_language_to_sql has returned: the oracle
\* result, or the keyword fallback.
Decide(t) ==
    /\ handlers[t].pc = "decide"
    /\ LET h == handlers[t]
           fb == KeywordFallbackSearch(h.question, DefaultLimit,
                                       ConcElapsed.fallback, store)
       IN  IF UseOracleResult(h.nl2sql)
           THEN /\ Goes(t, [h EXCEPT !.pc = "done",
                               !.response = [h.nl2sql EXCEPT
                                                !.method = "combined_nl2sql_primary"]])
                /\ UNCHANGED store
           ELSE /\ Goes(t, [h EXCEPT !.pc = "done",
                               !.trace = @ \o fb.trace,
                               !.response =
                                   [method |-> "combined_keyword_fallback",
                                    fallback_reason |-> FallbackReason(h.nl2sql),
                                    attempted_sql |-> AttemptedSql(h.nl2sql)]
                                   @@ fb.result])
                /\ store' = fb.store
    /\ UNCHANGED <<query_cache, last, requests>>

NextConc ==
    \/ \E t \in Threads : Receive(t)
    \/ \E t \in Threads : CheckCache(t)
    \/ \E t \in Threads : CallOracle(t)
    \/ \E t \in Threads : Execute(t)
    \/ \E t \in Threads : FetchAndSynthesize(t)
    \/ \E t \in Threads : WriteCache(t)
    \/ \E t \in Threads : Decide(t)

SpecConc == InitConc /\ [][NextConc]_vars

(***************************************************************************)
(* csv_to_sqlite: column names from CSV headers (a header is a sequence of *)
(* characters)                                                             *)
(***************************************************************************)

\* Longest header of the enumerated ones.
MaxHeaderLen == 4

\* str.isdigit() on one character.
IsDigit(c) == c \in {"0", "1", "2", "3", "4", "5", "6", "7", "8", "9"}

\* The character class [\w\-]: everything but blanks and punctuation.
IsWordOrHyphen(c) == c \notin {" ", "#", "@", ".", "/", "(", ")"}

\* re.sub(r'[^\w\-]', '_', cleaned)
ReplaceSpecial(name) ==
    [i \in DOMAIN name |-> IF IsWordOrHyphen(name[i]) THEN name[i] ELSE "_"]

\* Variant of CollapseUnderscores that leaves the name as it is.
CollapseUnderscores_Off(name) == name

RECURSIVE CollapseUnderscores(_)
\* re.sub(r'_+', '_', cleaned)
CollapseUnderscores(name) ==
    IF Len(name) <= 1 THEN name
    ELSE IF name[1] = "_" /\ name[2] = "_" THEN CollapseUnderscores(Tail(name))
    ELSE <<name[1]>> \o CollapseUnderscores(Tail(name))

RECURSIVE StripUnderscores(_)
\* cleaned.strip('_')
StripUnderscores(name) ==
    IF name = <<>> THEN name
    ELSE IF name[1] = "_" THEN StripUnderscores(Tail(name))
    ELSE IF name[Len(name)] = "_"
    THEN StripUnderscores(SubSeq(name, 1, Len(name) - 1))
    ELSE name

\* Variant of DigitPrefix that prefixes every name.
DigitPrefix_Always(name) == <<"c", "o", "l", "_">> \o name

\* if cleaned and cleaned[0].isdigit(): cleaned = 'col_' + cleaned
DigitPrefix(name) ==
    IF name # <<>> /\ IsDigit(name[1]) THEN <<"c", "o", "l", "_">> \o name
    ELSE name

UnnamedColumn ==
    <<"u", "n", "n", "a", "m", "e", "d", "_", "c", "o", "l", "u", "m", "n">>

\* clean_column_name
CleanColumnName(col_name) ==
    LET cleaned == DigitPrefix(StripUnderscores(CollapseUnderscores(
                       ReplaceSpecial(Strip(col_name)))))
    IN  IF cleaned # <<>> THEN cleaned ELSE UnnamedColumn

\* The headers "Asset #" and "2nd Email".
HeaderAsset == <<"A", "s", "s", "e", "t", " ", "#">>
HeaderSecondEmail == <<"2", "n", "d", " ", "E", "m", "a", "i", "l">>

\* Every header of up to MaxHeaderLen characters over a letter, a digit, the
\* underscore, the hyphen, the blank and a punctuation mark, and the two
\* headers above.
Headers ==
    UNION {[1..n -> {"a", "2", "_", "-", " ", "#"}] : n \in 0..MaxHeaderLen}
        \cup {HeaderAsset, HeaderSecondEmail}

InitHeader ==
    /\ store = StoreIngested
    /\ query_cache = EmptyDict
    /\ requests = 0
    /\ handlers = [t \in Threads |-> IdleHandler]
    /\ \E h \in Headers :
           last = [op |-> "header", col_name |-> h, passes |-> 0,
                   before |-> h, cleaned |-> h]

\* clean_column_name applied to the header, and then to its own result.
Sanitize ==
    /\ last.op = "header"
    /\ last.passes < 2
    /\ last' = [last EXCEPT !.passes = @ + 1,
                            !.before = last.cleaned,
                            !.cleaned = CleanColumnName(last.cleaned)]
    /\ UNCHANGED <<store, query_cache, requests, handlers>>

SpecHeader == InitHeader /\ [][Sanitize]_vars

(***************************************************************************)
(* Properties of the served process (Spec)                                 *)
(***************************************************************************)

\* The last request reached combined_nlp_search.
Searched == last.op = "nlp-search" /\ last.path # "rejected"

\* The SQL text the oracle produced for the last question: the text kept in the
\* cache on a hit, the cleaned reply of the oracle otherwise, "N/A" without one.
ProducedSql ==
    IF last.path = "cache_hit" THEN last.nl2sql.sql
    ELSE IF last.reply.raises \/ last.reply.content = NoContent THEN <<"N/A">>
    ELSE CleanSql(last.reply.content)

\* C1: whenever the oracle path ends in an error or in a success without rows,
\* the response has method combined_keyword_fallback and its attempted_sql is
\* the SQL text the oracle produced, or "N/A" when it produced none.
C1_FallbackCarriesOracleSql ==
    (Searched /\ ~UseOracleResult(last.nl2sql)) =>
        /\ last.response.method = "combined_keyword_fallback"
        /\ last.response.attempted_sql = ProducedSql

\* The trimmed question of a handled request.
AskedQuestion(req) == Strip(RawQuestion(req.body.data).text)

\* The oracle path of a request gave at least one row.
GaveRows(req) ==
    /\ req.op = "nlp-search"
    /\ req.path \in {"success", "cache_hit"}
    /\ req.nl2sql.count >= 1

\* C2: a request whose oracle SQL ran and gave at least one row answers with
\* cached = false and leaves its rows in the cache under "nl2sql:" + the
\* lower-cased question; cache entries are never changed or removed; a cache
\* hit answers with cached = true and the rows, SQL and count of the entry; so
\* the next request with the identical question gets cached = true with the
\* rows, SQL and count of the first response.
C2_CacheHitAfterSuccess ==
    [][ /\ (last'.op = "nlp-search" /\ last'.path = "success"
               /\ last'.nl2sql.count >= 1) =>
            /\ last'.response.cached = FALSE
            /\ <<"nl2sql:">> \o Lower(AskedQuestion(last')) \in DOMAIN query_cache'
            /\ query_cache'[<<"nl2sql:">> \o Lower(AskedQuestion(last'))].results
                   = last'.response.results
        /\ \A k \in DOMAIN query_cache :
               k \in DOMAIN query_cache' /\ query_cache'[k] = query_cache[k]
        /\ (last'.op = "nlp-search" /\ last'.path = "cache_hit"
               /\ last'.nl2sql.count >= 1) =>
            LET entry == query_cache[<<"nl2sql:">> \o Lower(AskedQuestion(last'))]
            IN  /\ last'.response.cached = TRUE
                /\ last'.response.results = entry.results
                /\ last'.response.sql = entry.sql
                /\ last'.response.count = entry.count
        /\ (GaveRows(last) /\ last'.op = "nlp-search" /\ last'.path # "rejected"
               /\ AskedQuestion(last') = AskedQuestion(last)) =>
            /\ last'.path = "cache_hit"
            /\ last'.response.cached = TRUE
            /\ last'.response.results = last.response.results
            /\ last'.response.sql = last.response.sql
            /\ last'.response.count = last.response.count
      ]_vars

\* A second request with the same question was answered from the cache with rows.
C2_Witness ==
    /\ last.op = "nlp-search"
    /\ last.path = "cache_hit"
    /\ last.nl2sql.count >= 1
    /\ last.response.cached = TRUE
    /\ last.response.results # <<>>

\* A cache entry is a result of the oracle path with status success.
OracleSuccess(entry) ==
    /\ {"status", "method", "sql", "results"} \subseteq DOMAIN entry
    /\ entry.status = "success"
    /\ entry.method = "openai_nl2sql"

\* C3: every cache entry is an oracle-path result with status success; the cache
\* changes only in a request whose oracle SQL executed without error; a request
\* that ends in an oracle (API) error or an SQL execution error, one rejected by
\* validation and one answered from the cache leave the cache unchanged, and the
\* keyword fallback adds no entry of its own.
C3_CacheOnlyOracleSuccess ==
    [][ /\ \A k \in DOMAIN query_cache' : OracleSuccess(query_cache'[k])
        /\ (last'.path \in {"oracle_error", "sql_error", "exec_exception",
                            "rejected", "cache_hit"}) =>
               query_cache' = query_cache
        /\ query_cache' # query_cache =>
               /\ last'.path = "success"
               /\ last'.nl2sql.status = "success"
               /\ DOMAIN query_cache' =
                      DOMAIN query_cache
                          \cup {<<"nl2sql:">> \o Lower(AskedQuestion(last'))}
      ]_vars

\* After a cached success, a request ran the keyword fallback because its oracle
\* SQL failed, and the cache still holds the entry.
C3_Witness ==
    /\ last.op = "nlp-search"
    /\ last.path = "sql_error"
    /\ last.response.method = "combined_keyword_fallback"
    /\ query_cache # EmptyDict

\* The body carries a question that is missing, empty or shorter than three
\* characters after trimming.
TooShort(body) ==
    /\ body.kind = "object"
    /\ RawQuestion(body.data).type = "str"
    /\ TextLen(Strip(RawQuestion(body.data).text)) < 3

\* C4: a POST whose question, after trimming, is missing, empty or shorter than
\* three characters is answered with HTTP 400, and the request runs no statement
\* on the store, calls the oracle not at all and leaves cache and store as they
\* were.
C4_ShortQuestionRejected ==
    [][ (last'.op = "nlp-search" /\ TooShort(last'.body)) =>
            /\ last'.http = 400
            /\ last'.response.status = "error"
            /\ last'.trace = <<>>
            /\ query_cache' = query_cache
            /\ store' = store
      ]_vars

\* A two-character question padded with blanks was rejected while the cache held
\* an entry.
C4_Witness ==
    /\ last.op = "nlp-search"
    /\ TooShort(last.body)
    /\ TextLen(RawQuestion(last.body.data).text) >= 3
    /\ last.http = 400
    /\ query_cache # EmptyDict

\* The body is a JSON object whose question is a string of three or more
\* characters after trimming.
PassesValidation(body) ==
    /\ body.kind = "object"
    /\ RawQuestion(body.data).type = "str"
    /\ TextLen(Strip(RawQuestion(body.data).text)) >= 3

\* C5: the query API answers 200 to every request that passes validation and 400
\* to every other one, a missing JSON body and a question that is not a string
\* included; it never answers with a server error.
C5_OnlyValidationErrors ==
    last.op = "nlp-search" =>
        /\ PassesValidation(last.body) => last.http = 200
        /\ ~PassesValidation(last.body) => last.http = 400

\* C6: when the oracle call fails or the oracle SQL fails to execute, the request
\* is answered 200 with the result of the keyword fallback, whose fallback_reason
\* is "NL2SQL failed: " followed by the error text of the oracle path (the
\* message of the failed call included); when the oracle path gave zero rows it
\* is "NL2SQL failed: No results".
C6_FallbackReasonCarriesError ==
    /\ (Searched /\ last.path \in {"oracle_error", "sql_error", "exec_exception"}) =>
           /\ last.http = 200
           /\ last.response.method = "combined_keyword_fallback"
           /\ last.response.status = "success"
           /\ "kw_devices" \in Range(last.trace)
           /\ last.nl2sql.error # <<>>
           /\ last.response.fallback_reason = <<"NL2SQL failed: ">> \o last.nl2sql.error
           /\ (last.reply.raises => last.nl2sql.error[2] = last.reply.msg)
           /\ (last.path = "sql_error" =>
                   last.nl2sql.error[1] = "SQL execution error: ")
    /\ (Searched /\ last.path \in {"success", "cache_hit"}
            /\ last.nl2sql.count = 0) =>
           /\ last.response.method = "combined_keyword_fallback"
           /\ last.response.fallback_reason = <<"NL2SQL failed: ", "No results">>

\* The oracle SQL failed to execute and the response carries its error text.
C6_Witness ==
    /\ Searched
    /\ last.path = "sql_error"
    /\ last.response.fallback_reason =
           <<"NL2SQL failed: ", "SQL execution error: ", last.nl2sql.error[2]>>

\* C8: a request leaves every row of devices, provisions and app_portfolio as it
\* was, whatever SQL text the oracle returned.
C8_ExecutorLeavesStoreUnchanged ==
    [][ last'.op = "nlp-search" => store' = store ]_vars

(***************************************************************************)
(* Properties of the keyword fallback (SpecKeyword)                        *)
(***************************************************************************)

\* C7: the keyword fallback never raises and always returns status success with
\* count = number of returned records; when the devices query fails it returns
\* no records, and when the provisions query fails it returns the device records
\* collected before the failure.
C7_KeywordFallbackNeverFails ==
    last.op = "keyword" =>
        /\ last.raised = FALSE
        /\ last.result.status = "success"
        /\ last.result.method = "keyword_fallback"
        /\ last.result.count = Len(last.result.results)
        /\ "devices.City" \in store.missing => last.result.results = <<>>
        /\ ("devices.City" \notin store.missing
               /\ "provisions.Role" \in store.missing) =>
              last.result.results =
                  Limit(Tag(Limit(SelectSeq(store.devices,
                                      LAMBDA r : DeviceMatches(r, last.query)),
                                  last.limit \div 2), "device"),
                        last.limit)

\* The provisions query failed after the devices query had given records, and
\* the fallback returned them with status success.
C7_Witness ==
    /\ last.op = "keyword"
    /\ "provisions.Role" \in store.missing
    /\ last.result.results # <<>>
    /\ last.result.status = "success"

(***************************************************************************)
(* Properties of the insight synthesis (SpecSynth)                         *)
(***************************************************************************)

\* The number of cross-reference analyses the question asks for whose query
\* fails on the store.
FailedCrossRefs(ql, st) ==
      (IF WantsLenovoAws(ql) /\ ~MakerAwsRows(st, "lenovo").ok THEN 1 ELSE 0)
    + (IF WantsAwsNotion(ql) /\ ~AwsNotionRows(st).ok THEN 1 ELSE 0)
    + (IF WantsAppleAws(ql) /\ ~MakerAwsRows(st, "apple").ok THEN 1 ELSE 0)
    + (IF WantsGeoAws(ql) /\ Has(ql, "japan") /\ ~JapanAwsRows(st).ok
       THEN 1 ELSE 0)

\* C9: every cross-reference query that fails inside the synthesis shows up as
\* an entry with status error in cross_references, and the enriched result keeps
\* status success.
C9_SubQueryFailureReported ==
    last.op = "synthesis" =>
        /\ last.enhanced.status = "success"
        /\ Cardinality({i \in DOMAIN last.enhanced.cross_references :
                           last.enhanced.cross_references[i].status = "error"})
               = FailedCrossRefs(Lower(last.question), store)

\* The size of the base set of a cross-reference entry.
BaseCount(entry, st) ==
    IF entry.title = "Lenovo + AWS Admin" THEN MakerUserCount(st, "lenovo").val
    ELSE IF entry.title = "Apple + AWS Admin" THEN AppleBaseCount(st).val
    ELSE AwsAdminCount(st).val

\* C10: every cross-reference entry with status none whose base set is not empty
\* carries a total_base.
C10_NoneEntriesCarryBase ==
    last.op = "synthesis" =>
        \A i \in DOMAIN last.enhanced.cross_references :
            LET entry == last.enhanced.cross_references[i]
            IN  (entry.status = "none" /\ BaseCount(entry, store) > 0) =>
                    "total_base" \in DOMAIN entry

\* C11: every cross-reference entry lists at most 10 users.
C11_AtMostTenUsers ==
    last.op = "synthesis" =>
        \A i \in DOMAIN last.enhanced.cross_references :
            Len(last.enhanced.cross_references[i].users) <= 10

\* The number of entries of a cross-reference list with a given title.
EntriesTitled(refs, title) ==
    Cardinality({i \in DOMAIN refs : refs[i].title = title})

\* The number of keyword-pair combinations present in a lower-cased question.
CombinationsIn(ql) ==
      (IF WantsLenovoAws(ql) THEN 1 ELSE 0)
    + (IF WantsAwsNotion(ql) THEN 1 ELSE 0)
    + (IF WantsAppleAws(ql) THEN 1 ELSE 0)
    + (IF WantsGeoAws(ql) THEN 1 ELSE 0)

\* C12: on a store where every table and column exists, cross_references holds
\* exactly one entry for each keyword-pair combination present in the question
\* (Lenovo + AWS admin, AWS admin + Notion, Apple + AWS admin, Japan or India +
\* AWS), each with status found or none, and no other entry; a question with
\* none of the combinations gets the empty list.
C12_OneEntryPerCombination ==
    (last.op = "synthesis" /\ store.missing = {}) =>
        LET ql == Lower(last.question)
            refs == last.enhanced.cross_references
        IN  /\ Len(refs) = CombinationsIn(ql)
            /\ \A i \in DOMAIN refs : refs[i].status \in {"found", "none"}
            /\ EntriesTitled(refs, "Lenovo + AWS Admin")
                   = (IF WantsLenovoAws(ql) THEN 1 ELSE 0)
            /\ EntriesTitled(refs, "AWS Admin + Notion")
                   = (IF WantsAwsNotion(ql) THEN 1 ELSE 0)
            /\ EntriesTitled(refs, "Apple + AWS Admin")
                   = (IF WantsAppleAws(ql) THEN 1 ELSE 0)

(***************************************************************************)
(* Further properties of the served process (Spec)                         *)
(***************************************************************************)

\* C13: when the oracle SQL of a request executes and gives n >= 1 rows, the
\* response is the oracle result with method combined_nl2sql_primary, its rows
\* are the n rows the statement gives on the store, count = n, and the request
\* ran no statement of the keyword fallback.
C13_OraclePrimaryOnRows ==
    (Searched /\ last.path = "success" /\ last.nl2sql.count >= 1) =>
        /\ last.http = 200
        /\ last.response.method = "combined_nl2sql_primary"
        /\ last.response.status = "success"
        /\ last.response.sql = CleanSql(last.reply.content)
        /\ last.response.results =
               ExecuteOracleSql(CleanSql(last.reply.content), store).rows
        /\ last.response.count = Len(last.response.results)
        /\ last.response.count >= 1
        /\ "fallback_reason" \notin DOMAIN last.response
        /\ Range(last.trace) \cap {"kw_devices", "kw_provisions"} = {}

\* The oracle SQL gave all seven device rows and the response is the oracle's.
C13_Witness ==
    /\ Searched
    /\ last.path = "success"
    /\ last.response.method = "combined_nl2sql_primary"
    /\ last.response.count = 7

(***************************************************************************)
(* Further properties of the keyword fallback (SpecKeyword)                *)
(***************************************************************************)

\* C14: the keyword fallback returns at most limit records; each record is
\* tagged device and holds a devices row, or is tagged user and holds a
\* provisions row; every device record comes before every user record; count
\* is the number of records returned.
C14_TaggedAndCapped ==
    last.op = "keyword" =>
        LET results == last.result.results
        IN  /\ Len(results) <= last.limit
            /\ last.result.count = Len(results)
            /\ \A i \in DOMAIN results :
                   \/ /\ results[i].type = "device"
                      /\ "Asset_Number" \in DOMAIN results[i].data
                      /\ \E d \in Range(store.devices) :
                             d.Asset_Number = results[i].data.Asset_Number
                   \/ /\ results[i].type = "user"
                      /\ "User_ID" \in DOMAIN results[i].data
                      /\ \E p \in Range(store.provisions) :
                             p.User_ID = results[i].data.User_ID
            /\ \A i, j \in DOMAIN results :
                   (results[i].type = "user" /\ results[j].type = "device") => j < i

\* With the default limit, five device records are followed by five user
\* records although eleven rows of each table match.
C14_Witness ==
    /\ last.op = "keyword"
    /\ last.limit = 10
    /\ Len(last.result.results) = 10
    /\ last.result.results[5].type = "device"
    /\ last.result.results[6].type = "user"
    /\ Len(store.devices) = 11

FamiliesIn(ql) ==
    {f \in {"hardware", "access", "application", "geography"} :
        \E k \in (CASE f = "hardware" -> {"lenovo", "apple", "laptop", "device"}
                    [] f = "access" -> {"aws", "admin", "administrator"}
                    [] f = "application" -> {"notion", "github", "slack", "license"}
                    [] OTHER -> {"japan", "india", "bangalore"}) : Has(ql, k)}

\* C16: for an oracle result without rows on a store where every table and
\* column exists, a question with markers of at least two criteria families
\* gets breakdown data with one count for each detected family and one
\* intersection count, and a question with fewer families gets empty breakdown
\* data.
C16_BreakdownPerFamily ==
    (last.op = "synthesis" /\ last.enhanced.count = 0 /\ store.missing = {}) =>
        LET families == FamiliesIn(Lower(last.question))
            breakdown == last.enhanced.breakdown_data
        IN  IF Cardinality(families) >= 2
            THEN /\ "error" \notin DOMAIN breakdown
                 /\ Cardinality(DOMAIN breakdown) = Cardinality(families) + 1
            ELSE breakdown = EmptyDict

(***************************************************************************)
(* Oracle calls, cache growth (Spec)                                       *)
(***************************************************************************)

\* How often a step occurs in the trace of a request.
Times(trace, step) == Cardinality({i \in DOMAIN trace : trace[i] = step})

\* C17: a request calls the oracle at most once; when the call fails, the oracle
\* path gives an api_error result with an elapsed time and without SQL, runs no
\* oracle SQL on the store, and the request goes on with exactly one keyword
\* fallback search and is answered 200.
C17_OracleCalledOnce ==
    last.op = "nlp-search" =>
        /\ Times(last.trace, "oracle_call") <= 1
        /\ (last.path = "oracle_error" /\ last.reply.raises) =>
               /\ last.trace = <<"oracle_call", "kw_devices", "kw_provisions">>
               /\ last.nl2sql.status = "api_error"
               /\ last.nl2sql.execution_time \in {t.nl2sql : t \in ElapsedTimes}
               /\ "sql" \notin DOMAIN last.nl2sql
               /\ last.nl2sql.error = <<"OpenAI API error: ", last.reply.msg>>
               /\ last.http = 200
               /\ last.response.method = "combined_keyword_fallback"

\* The oracle call of a request failed and the keyword fallback answered it.
C17_Witness ==
    /\ last.op = "nlp-search"
    /\ last.path = "oracle_error"
    /\ last.reply.raises
    /\ Times(last.trace, "oracle_call") = 1
    /\ Times(last.trace, "kw_devices") = 1
    /\ last.response.count > 0

(***************************************************************************)
(* Properties of two concurrent requests (SpecConc)                        *)
(***************************************************************************)

\* Both threads have answered, and their questions have one cache key.
BothAnsweredSameKey ==
    /\ \A t \in Threads : handlers[t].pc = "done"
    /\ CacheKey(handlers["t1"].question) = CacheKey(handlers["t2"].question)

\* The threads whose oracle SQL executed without error.
Computed == {t \in Threads : handlers[t].path = "success"}

\* C18 as stated: after two handlers have answered one normalized question, the
\* cache holds exactly one entry for its key, a success result computed by one
\* of the two handlers.
C18_OneEntryAfterBoth ==
    BothAnsweredSameKey =>
        /\ DOMAIN query_cache = {CacheKey(handlers["t1"].question)}
        /\ \E t \in Computed :
               query_cache[CacheKey(handlers["t1"].question)] = handlers[t].nl2sql

\* C18 (amended): for every interleaving of two handlers on one normalized
\* question, each handler answers with a complete result after at most one
\* oracle call of its own, and after both the cache holds at most one entry for
\* the key: exactly one, a success result computed by one of the two handlers,
\* if the oracle SQL of at least one of them executed without error, and none
\* if both oracle paths failed.
C18_OneEntryIfComputed ==
    BothAnsweredSameKey =>
        /\ \A t \in Threads :
               /\ handlers[t].response.status = "success"
               /\ handlers[t].response.method \in
                      {"combined_nl2sql_primary", "combined_keyword_fallback"}
               /\ handlers[t].response.count = Len(handlers[t].response.results)
               /\ Times(handlers[t].trace, "oracle_call") <= 1
        /\ IF Computed = {}
           THEN query_cache = EmptyDict
           ELSE /\ DOMAIN query_cache = {CacheKey(handlers["t1"].question)}
                /\ \E t \in Computed :
                       query_cache[CacheKey(handlers["t1"].question)]
                           = handlers[t].nl2sql

\* Both handlers missed the cache, called the oracle and computed different
\* results; the cache holds the result of one of them.
C18_Witness ==
    /\ BothAnsweredSameKey
    /\ Computed = Threads
    /\ \A t \in Threads : Times(handlers[t].trace, "oracle_call") = 1
    /\ handlers["t1"].nl2sql # handlers["t2"].nl2sql
    /\ query_cache[CacheKey(handlers["t1"].question)] = handlers["t2"].nl2sql

\* C19: at no time do two handlers have a statement in progress on the store
\* connection.
C19_OneStatementAtATime ==
    Cardinality({t \in Threads : handlers[t].pc = "fetch"}) <= 1

(***************************************************************************)
(* Properties of the cache size (SpecStatus)                               *)
(***************************************************************************)

\* C20: no step removes or changes a cache entry, so the set of cache keys only
\* grows; the status endpoint leaves the cache alone and reports the number of
\* its entries, which therefore never decreases.
C20_CacheOnlyGrows ==
    [][ /\ \A k \in DOMAIN query_cache :
               k \in DOMAIN query_cache' /\ query_cache'[k] = query_cache[k]
        /\ Cardinality(DOMAIN query_cache') >= Cardinality(DOMAIN query_cache)
        /\ last'.op = "status" =>
               /\ query_cache' = query_cache
               /\ last'.response.cache_size = Cardinality(DOMAIN query_cache)
               /\ last.op = "status" =>
                      last'.response.cache_size >= last.response.cache_size
      ]_vars

\* The status endpoint reports two entries after two cached questions.
C20_Witness ==
    /\ last.op = "status"
    /\ last.response.cache_size = 2
    /\ Cardinality(DOMAIN query_cache) = 2

(***************************************************************************)
(* Properties of the column names (SpecHeader)                             *)
(***************************************************************************)

\* C21: cleaning a cleaned column name gives the same name.
C21_CleanIdempotent ==
    (last.op = "header" /\ last.passes = 2) => last.cleaned = last.before

\* "2nd Email" was cleaned twice and is col_2nd_Email after both passes.
C21_Witness ==
    /\ last.op = "header"
    /\ last.passes = 2
    /\ last.col_name = HeaderSecondEmail
    /\ last.cleaned = <<"c", "o", "l", "_", "2", "n", "d", "_", "E", "m", "a", "i", "l">>

\* The characters of a header that survive the cleaning: everything but
\* blanks, punctuation and underscores.
Usable(col_name) ==
    SelectSeq(col_name, LAMBDA c : c \notin {" ", "#", "_"})

\* C22: a cleaned column name is not empty, holds only word characters and
\* hyphens, has no two underscores in a row, no underscore and no digit at the
\* start and no underscore at the end; a header whose first usable character is
\* a digit gets the prefix col_, a header without a usable character becomes
\* unnamed_column, "Asset #" becomes Asset and "2nd Email" col_2nd_Email.
C22_CleanNameShape ==
    (last.op = "header" /\ last.passes = 1) =>
        LET name == last.cleaned
            usable == Usable(last.col_name)
        IN  /\ name # <<>>
            /\ \A i \in DOMAIN name : name[i] \notin {" ", "#"}
            /\ \A i \in 1..(Len(name) - 1) : ~(name[i] = "_" /\ name[i + 1] = "_")
            /\ name[1] # "_"
            /\ name[Len(name)] # "_"
            /\ ~IsDigit(name[1])
            /\ (usable # <<>> /\ IsDigit(usable[1])) =>
                   /\ SubSeq(name, 1, 4) = <<"c", "o", "l", "_">>
                   /\ name[5] = usable[1]
            /\ (usable # <<>> /\ ~IsDigit(usable[1])) => name[1] = usable[1]
            /\ usable = <<>> => name = UnnamedColumn
            /\ Usable(name) = (IF usable = <<>> THEN Usable(UnnamedColumn)
                               ELSE IF IsDigit(usable[1])
                               THEN <<"c", "o", "l">> \o usable
                               ELSE usable)
            /\ last.col_name = HeaderAsset => name = <<"A", "s", "s", "e", "t">>
            /\ last.col_name = HeaderSecondEmail =>
                   name = <<"c", "o", "l", "_", "2", "n", "d", "_", "E", "m", "a", "i", "l">>

\* "Asset #" was cleaned once.
C22_Witness ==
    /\ last.op = "header"
    /\ last.passes = 1
    /\ last.col_name = HeaderAsset
    /\ last.cleaned = <<"A", "s", "s", "e", "t">>

(***************************************************************************)
(* Further properties of the cache (Spec)                                  *)
(***************************************************************************)

\* C23: a request whose oracle path succeeds leaves an entry under the
\* lower-cased question, and every request whose lower-cased question has an
\* entry is answered from the cache, without an oracle call and without
\* executing oracle SQL.
C23_LaterRequestsFromCache ==
    [][ /\ (last'.op = "nlp-search" /\ last'.path = "success") =>
               <<"nl2sql:">> \o Lower(AskedQuestion(last')) \in DOMAIN query_cache'
        /\ (/\ last'.op = "nlp-search"
            /\ PassesValidation(last'.body)
            /\ <<"nl2sql:">> \o Lower(AskedQuestion(last')) \in DOMAIN query_cache) =>
               /\ last'.path = "cache_hit"
               /\ Range(last'.trace) \cap {"oracle_call", "oracle_sql"} = {}
               /\ query_cache' = query_cache
      ]_vars

\* "Lenovo" was answered from the entry that "lenovo" left.
C23_Witness ==
    /\ last.op = "nlp-search"
    /\ last.path = "cache_hit"
    /\ AskedQuestion(last) = <<"Lenovo">>
    /\ query_cache[<<"nl2sql:", "lenovo">>].question = <<"lenovo">>
    /\ Times(last.trace, "oracle_call") = 0

\* C24: an oracle success without rows is cached and answered by the keyword
\* fallback; a later request with the same question is a cache hit whose oracle
\* result has cached = true and count 0, calls no oracle, and is again answered
\* by the keyword fallback with the reason "No results" and with attempted_sql
\* equal to the SQL of the cache entry.
C24_ZeroRowsCachedAndFallback ==
    [][ /\ (last'.op = "nlp-search" /\ last'.path = "success"
               /\ last'.nl2sql.count = 0) =>
            LET key == <<"nl2sql:">> \o Lower(AskedQuestion(last'))
            IN  /\ key \in DOMAIN query_cache'
                /\ query_cache'[key].count = 0
                /\ query_cache'[key].sql = CleanSql(last'.reply.content)
                /\ last'.response.method = "combined_keyword_fallback"
        /\ (/\ last'.op = "nlp-search"
            /\ PassesValidation(last'.body)
            /\ <<"nl2sql:">> \o Lower(AskedQuestion(last')) \in DOMAIN query_cache
            /\ query_cache[<<"nl2sql:">> \o Lower(AskedQuestion(last'))].count = 0) =>
            LET entry == query_cache[<<"nl2sql:">> \o Lower(AskedQuestion(last'))]
            IN  /\ last'.path = "cache_hit"
                /\ last'.nl2sql.cached = TRUE
                /\ last'.nl2sql.count = 0
                /\ Times(last'.trace, "oracle_call") = 0
                /\ last'.http = 200
                /\ last'.response.method = "combined_keyword_fallback"
                /\ last'.response.fallback_reason = <<"NL2SQL failed: ", "No results">>
                /\ last'.response.attempted_sql = entry.sql
      ]_vars

\* A question whose cached oracle result has no rows was asked again and the
\* keyword fallback answered it with records of its own.
C24_Witness ==
    /\ last.op = "nlp-search"
    /\ last.path = "cache_hit"
    /\ last.nl2sql.count = 0
    /\ last.response.method = "combined_keyword_fallback"
    /\ last.response.attempted_sql = last.nl2sql.sql
    /\ last.response.count > 0

\* C25: every cache entry has method openai_nl2sql and cached = false, and no
\* request changes an entry: neither the cached = true set on the copy a hit
\* returns nor the method combined_search sets on its result reaches the stored
\* entry.
C25_EntryFieldsKept ==
    [][ /\ \A k \in DOMAIN query_cache' :
               /\ query_cache'[k].method = "openai_nl2sql"
               /\ query_cache'[k].cached = FALSE
        /\ \A k \in DOMAIN query_cache : query_cache'[k] = query_cache[k]
        /\ (last'.op = "nlp-search" /\ last'.path \in {"success", "cache_hit"}
               /\ last'.nl2sql.count >= 1) =>
               /\ last'.response.method = "combined_nl2sql_primary"
               /\ last'.response.cached = (last'.path = "cache_hit")
      ]_vars

\* A hit was answered with cached = true and method combined_nl2sql_primary,
\* and the entry it came from still has cached = false and method openai_nl2sql.
C25_Witness ==
    /\ last.op = "nlp-search"
    /\ last.path = "cache_hit"
    /\ last.response.method = "combined_nl2sql_primary"
    /\ last.response.cached = TRUE
    /\ LET entry == query_cache[<<"nl2sql:">> \o Lower(AskedQuestion(last))]
       IN  entry.method = "openai_nl2sql" /\ entry.cached = FALSE

\* C26: the oracle path shares a cache entry between two questions exactly when
\* they are equal after lower-casing: a hit returns the question text, SQL,
\* rows, insights and execution time that the first question left in the entry,
\* and a question that differs from every cached one in another character than
\* the case of a letter, an inner blank included, is not answered from the
\* cache.
C26_KeyIsLowerCasedQuestion ==
    [][ (last'.op = "nlp-search" /\ PassesValidation(last'.body)) =>
            LET asked == AskedQuestion(last')
                same == {k \in DOMAIN query_cache :
                            Lower(query_cache[k].question) = Lower(asked)}
            IN  /\ Cardinality(same) <= 1
                /\ (last'.path = "cache_hit") = (same # {})
                /\ last'.path = "cache_hit" =>
                       \A k \in same :
                           /\ last'.nl2sql.question = query_cache[k].question
                           /\ last'.nl2sql.sql = query_cache[k].sql
                           /\ last'.nl2sql.results = query_cache[k].results
                           /\ last'.nl2sql.insights = query_cache[k].insights
                           /\ last'.nl2sql.execution_time = query_cache[k].execution_time
                           /\ last'.nl2sql.count >= 1 =>
                                  /\ last'.response.question = query_cache[k].question
                                  /\ last'.response.sql = query_cache[k].sql
                                  /\ last'.response.results = query_cache[k].results
                                  /\ last'.response.insights = query_cache[k].insights
                                  /\ last'.response.execution_time =
                                         query_cache[k].execution_time
                /\ last'.path = "success" =>
                       /\ DOMAIN query_cache' # DOMAIN query_cache
                       /\ \E k \in DOMAIN query_cache' \ DOMAIN query_cache :
                              query_cache'[k].question = asked
      ]_vars

\* "Lenovo" was answered with the question text "lenovo" of the entry.
C26_Witness ==
    /\ last.op = "nlp-search"
    /\ last.path = "cache_hit"
    /\ AskedQuestion(last) = <<"Lenovo">>
    /\ last.response.method = "combined_nl2sql_primary"
    /\ last.response.question = <<"lenovo">>

\* The question with two blanks after "lenovo" was asked after the one with a
\* single blank and was not answered from its entry.
C26_WitnessInnerBlank ==
    /\ last.op = "nlp-search"
    /\ last.path = "success"
    /\ AskedQuestion(last) = <<"lenovo", " ", " ", "aws", " ", "admin", " ", "notion">>
    /\ Cardinality(DOMAIN query_cache) = 2
    /\ <<"nl2sql:", "lenovo", " ", "aws", " ", "admin", " ", "notion">> \in DOMAIN query_cache

(***************************************************************************)
(* The halves of the keyword fallback (SpecKeyword)                        *)
(***************************************************************************)

\* The records of one type in the result of the last keyword search.
RecordsOfType(type) ==
    SelectSeq(last.result.results, LAMBDA r : r.type = type)

\* C27: the keyword fallback returns at most limit div 2 device records and at
\* most limit div 2 user records, whatever the other table gives, hence at most
\* 2 * (limit div 2) records: at most five of each with the default limit 10,
\* and none at all with limit 1.
C27_HalfLimitPerTable ==
    last.op = "keyword" =>
        /\ Len(RecordsOfType("device")) <= last.limit \div 2
        /\ Len(RecordsOfType("user")) <= last.limit \div 2
        /\ Len(last.result.results) <= 2 * (last.limit \div 2)
        /\ last.result.count <= 2 * (last.limit \div 2)
        /\ last.limit = DefaultLimit =>
               /\ Len(RecordsOfType("device")) <= 5
               /\ Len(RecordsOfType("user")) <= 5
        /\ last.limit = 1 => last.result.results = <<>> /\ last.result.count = 0

\* With limit 10 and no matching device, five user records are returned
\* although more than five rows of provisions match.
C27_Witness ==
    /\ last.op = "keyword"
    /\ last.limit = 10
    /\ Len(RecordsOfType("device")) = 0
    /\ Len(RecordsOfType("user")) = 5
    /\ last.result.count = 5
    /\ Len(SelectSeq(store.provisions,
                     LAMBDA r : ProvisionMatches(r, last.query))) > 5

\* With limit 1 nothing is returned although rows of both tables match.
C27_WitnessLimitOne ==
    /\ last.op = "keyword"
    /\ last.limit = 1
    /\ last.result.count = 0
    /\ \E i \in DOMAIN store.devices : DeviceMatches(store.devices[i], last.query)

(***************************************************************************)
(* The fields of a fallback response (Spec)                                *)
(***************************************************************************)

SynthesisFields ==
    {"insights", "breakdown_data", "detailed_breakdown", "key_findings",
     "cross_references", "suggestions", "comprehensive_summary"}

\* C28: a response with method combined_keyword_fallback has the fields of the
\* keyword fallback, fallback_reason and attempted_sql, and none of the synthesis
\* fields; what the synthesis computed for an oracle result without rows stays
\* in the cache entry of the question.
C28_FallbackWithoutSynthesis ==
    (Searched /\ last.response.method = "combined_keyword_fallback") =>
        /\ DOMAIN last.response \cap SynthesisFields = {}
        /\ DOMAIN last.response =
               {"query", "method", "results", "count", "execution_time", "status",
                "fallback_reason", "attempted_sql"}
        /\ (last.path \in {"success", "cache_hit"}) =>
               LET key == <<"nl2sql:">> \o Lower(AskedQuestion(last))
               IN  /\ key \in DOMAIN query_cache
                   /\ query_cache[key].count = 0
                   /\ "insights" \in DOMAIN query_cache[key]
                   /\ "breakdown_data" \in DOMAIN last.nl2sql =>
                          /\ "breakdown_data" \in DOMAIN query_cache[key]
                          /\ query_cache[key].breakdown_data = last.nl2sql.breakdown_data

\* The oracle SQL of a question about Lenovo, AWS admin and Notion gave no row:
\* the breakdown is in the cache entry and the response is the fallback's.
C28_Witness ==
    /\ Searched
    /\ last.path = "success"
    /\ last.nl2sql.count = 0
    /\ last.response.method = "combined_keyword_fallback"
    /\ "breakdown_data" \in DOMAIN last.nl2sql
    /\ "lenovo_users" \in DOMAIN last.nl2sql.breakdown_data
    /\ \E k \in DOMAIN query_cache :
           /\ "breakdown_data" \in DOMAIN query_cache[k]
           /\ "lenovo_users" \in DOMAIN query_cache[k].breakdown_data

(***************************************************************************)
(* Further properties of the insight synthesis (SpecSynth)                 *)
(***************************************************************************)

\* C29: in every cross-reference entry the status is found, none or error; it
\* is found exactly when the entry has a count of at least 1, and then count is
\* the number of users listed; it is none exactly when the entry has count 0,
\* and then no user is listed; an entry with status error lists no user.
C29_StatusAgreesWithData ==
    last.op = "synthesis" =>
        \A i \in DOMAIN last.enhanced.cross_references :
            LET entry == last.enhanced.cross_references[i]
                counted == "count" \in DOMAIN entry
            IN  /\ entry.status \in {"found", "none", "error"}
                /\ (entry.status = "found") = (counted /\ entry.count >= 1)
                /\ (entry.status = "none") = (counted /\ entry.count = 0)
                /\ entry.status = "found" => entry.count = Len(entry.users)
                /\ entry.status = "none" => entry.users = <<>>
                /\ entry.status = "error" => entry.users = <<>>

\* One synthesis gave an entry with status found that lists its users and an
\* entry with status none.
C29_Witness ==
    /\ last.op = "synthesis"
    /\ \E i, j \in DOMAIN last.enhanced.cross_references :
           LET found == last.enhanced.cross_references[i]
               none == last.enhanced.cross_references[j]
           IN  /\ found.status = "found"
               /\ found.count >= 1
               /\ Len(found.users) = found.count
               /\ none.status = "none"
               /\ none.count = 0

\* A synthesis gave an entry with status error.
C29_WitnessError ==
    /\ last.op = "synthesis"
    /\ \E i \in DOMAIN last.enhanced.cross_references :
           last.enhanced.cross_references[i].status = "error"

\* The synthesis said that no Lenovo user is an AWS administrator: the key
\* finding "No overlap between Lenovo users and AWS administrators", or the
\* suggestion to ask for Apple laptop users with AWS admin access.
SaysNoLenovoAwsOverlap(enhanced) ==
    \/ \E i \in DOMAIN enhanced.key_findings :
           enhanced.key_findings[i] =
               Msg("No overlap between Lenovo users and AWS administrators", 0)
    \/ \E i \in DOMAIN enhanced.suggestions :
           enhanced.suggestions[i] = "Try: 'Apple laptop users with AWS admin access'"

\* C30: the key finding "No overlap between Lenovo users and AWS administrators"
\* and the suggestion "Apple laptop users with AWS admin access" appear only when
\* breakdown_data holds a lenovo_aws count and that count is 0.
C30_EmptyIntersectionOnlyIfCounted ==
    (last.op = "synthesis" /\ SaysNoLenovoAwsOverlap(last.enhanced)) =>
        /\ "lenovo_aws" \in DOMAIN last.enhanced.breakdown_data
        /\ last.enhanced.breakdown_data.lenovo_aws = 0

====
